---- MODULE Spec2Model ----
(***************************************************************************)
(* Provider-chain resolution and caching engine of rero-invenio-thumbnails. *)
(* Python values are modelled as tagged records, the cache backends as a    *)
(* key/value store with expiry, every provider as an operator over the      *)
(* upstream's answer, and the two public entry points (get_thumbnail_url,   *)
(* get_thumbnail) as one atomic action each.                                 *)
(***************************************************************************)
EXTENDS Integers, Sequences, FiniteSets, TLC

VARIABLES providers, cacheType, cacheFault, now, cache, world, download,
          lastCall, calls, runtime

vars == <<providers, cacheType, cacheFault, now, cache, world, download,
         lastCall, calls, runtime>>

(* ------------------------------ bounds --------------------------------- *)

\* longest configured provider list explored
MaxProviders == 2
\* the clock stops advancing here
MaxTime == 2
\* RERO_INVENIO_THUMBNAILS_CACHE_EXPIRE, in clock ticks
CacheExpire == 1
\* most attempts a retry policy allows, and the largest backoff setting
MaxAttempts == 3
MaxBackoff == 3
\* identifiers handed to the entry points: one ISBN in two spellings
Identifiers == {"9780134685991", "978-0-13-468599-1"}
\* an identifier, and the same identifier followed by the text that
\* _generate_cache_key appends for a width of 200
KeyIdentifiers == {"9780134685991", "9780134685991_200x0"}
\* identifiers that read as a path: a parent directory, an absolute path, a
\* subdirectory, a dot-dot alone
PathIdentifiers ==
  {"9780134685991", "../9780134685991", "/srv/9780134685991",
   "covers/9780134685991", ".."}
\* every string the entry points are called with
AllIdentifiers == Identifiers \cup KeyIdentifiers \cup PathIdentifiers
\* provider names that configured lists are built from
ConfigNames == {"files", "open library", "google api", "nonexistent_provider"}
\* the same for the runs that fetch images
ImageIdentifiers == {"9780134685991"}
ImageProviderLists ==
  {<<>>, <<"files">>, <<"open library">>, <<"files", "open library">>,
   <<"open library", "files">>}
\* requested <<width, height>>, 0 for none
ImageShapes == {<<0, 0>>, <<200, 0>>}
\* what the upstream of one provider does during one call
Scenarios == {"ok", "notfound", "neterror", "invalid"}
\* the runs that look at renditions of a local file: the provider lists, the
\* requested <<width, height>>, and what the files directory holds for the
\* identifier ("literal": a file whose content is the four bytes None)
RenditionProviderLists == {<<"files">>, <<"files", "open library">>}
RenditionShapes == {<<0, 0>>, <<200, 0>>, <<0, 150>>}
\* the runs that go through the HTTP boundary: the provider lists and the
\* values of the cached query parameter ("" when the parameter is missing)
EndpointProviderLists ==
  {<<>>, <<"files">>, <<"open library">>, <<"files", "open library">>,
   <<"nonexistent_provider">>}
CachedArgs == {"", "false", "False"}
FileScenarios == {"ok", "notfound", "literal"}

(* ------------------------------ process ------------------------------- *)

\* What the worker process is: utils._DISABLE_RETRIES as computed at import,
\* whether a Flask application context is active, and the retry keys that
\* current_app.config holds (a function from the keys that are set).
\* An application started with the package's defaults, outside pytest:
AppRuntime == [disable_retries |-> FALSE, context |-> TRUE, config |-> <<>>]

(* --------------------------- Python values ----------------------------- *)

PyNone == [k |-> "None"]
PyStr(x) == [k |-> "str", s |-> x]
PyBytes(x) == [k |-> "bytes", s |-> x]
PyTuple(x, y) == [k |-> "tuple", a |-> x, b |-> y]

\* the value a call raised instead of returning
Raised(exc) == [k |-> "raised", exc |-> exc]

\* bool(v): None and empty strings are falsy, a 2-tuple is never empty
Truthy(v) ==
  CASE v.k = "None" -> FALSE
    [] v.k = "str" -> v.s # ""
    [] v.k = "bytes" -> v.s # ""
    [] v.k = "tuple" -> TRUE

\* repr(v) of a tuple item
PyRepr(v) ==
  CASE v.k = "None" -> "None"
    [] v.k = "str" -> "'" \o v.s \o "'"
    [] v.k = "bytes" -> "b'" \o v.s \o "'"

\* str(v)
PyToStr(v) ==
  CASE v.k = "None" -> "None"
    [] v.k = "str" -> v.s
    [] v.k = "bytes" -> "b'" \o v.s \o "'"
    [] v.k = "tuple" -> "(" \o PyRepr(v.a) \o ", " \o PyRepr(v.b) \o ")"

\* needle in haystack, for two strings
RECURSIVE StrContains(_, _)
StrContains(hay, needle) ==
  IF Len(needle) > Len(hay) THEN FALSE
  ELSE IF SubSeq(hay, 1, Len(needle)) = needle THEN TRUE
  ELSE StrContains(SubSeq(hay, 2, Len(hay)), needle)

\* `needle in v` for a str (substring) or a tuple (item equality)
PyIn(needle, v) ==
  CASE v.k = "str" -> StrContains(v.s, needle)
    [] v.k = "tuple" -> v.a = PyStr(needle) \/ v.b = PyStr(needle)
    [] OTHER -> FALSE

(* ------------------------------ utils ---------------------------------- *)

\* str.replace(old, "") for a one-character old
RECURSIVE Remove(_, _)
Remove(str, old) ==
  IF Len(str) = 0 THEN ""
  ELSE LET c == SubSeq(str, 1, 1)
           rest == Remove(SubSeq(str, 2, Len(str)), old)
       IN IF c = old THEN rest ELSE c \o rest

\* (variant: only the hyphens are removed)
clean_isbn_HyphensOnly(isbn) == Remove(isbn, "-")

\* isbn.replace("-", "").replace(" ", "")
clean_isbn(isbn) == Remove(Remove(isbn, "-"), " ")

\* image content: its length, whether PIL can open it, and its size
ValidImage == [len |-> 2048, decodable |-> TRUE, w |-> 50, h |-> 75]
Placeholder == [len |-> 43, decodable |-> TRUE, w |-> 1, h |-> 1]
EmptyContent == [len |-> 0, decodable |-> FALSE, w |-> 0, h |-> 0]
CorruptContent == [len |-> 43, decodable |-> FALSE, w |-> 0, h |-> 0]
\* the four bytes N, o, n, e: no image
LiteralNone == [len |-> 4, decodable |-> FALSE, w |-> 0, h |-> 0]

MinDimension == 10

PyBool(b) == [k |-> "bool", b |-> b]

\* current_app.logger.debug(...): raises when logging fails, for instance
\* outside an application context
LoggerDebug(logging) ==
  IF logging = "fails" THEN Raised("RuntimeError") ELSE PyNone

\* with suppress(Exception): what the block raised is dropped and the
\* block ends without a value
suppress(outcome) == IF outcome.k = "raised" THEN PyNone ELSE outcome

\* a statement, then the next one unless the first raised
Then(first, next) == IF first.k = "raised" THEN first ELSE next

\* a block, then what follows it unless the block returned or raised
OrElse(block, after) == IF block = PyNone THEN after ELSE block

\* (variant: an image must be larger than min_dimension on both sides)
validate_image_content_logging_Exclusive(content, min_dimension, logging) ==
  IF content = PyNone \/ content.len = 0 THEN PyBool(FALSE)
  ELSE IF content.decodable
       THEN PyBool(~(content.w <= min_dimension \/ content.h <= min_dimension))
       ELSE PyBool(FALSE)

\* validate_image_content(content, provider_name, isbn, min_dimension) with
\* logging working or failing: the value returned, or the exception raised.
\* Every debug call stands in its own suppress block, and the block that
\* opens the image is followed by the final `return False`.
validate_image_content_logging(content, min_dimension, logging) ==
  IF content = PyNone \/ content.len = 0
  THEN Then(suppress(LoggerDebug(logging)), PyBool(FALSE))
  ELSE LET opened ==
             IF ~content.decodable THEN Raised("UnidentifiedImageError")
             ELSE IF content.w < min_dimension \/ content.h < min_dimension
                  THEN Then(suppress(LoggerDebug(logging)), PyBool(FALSE))
                  ELSE PyBool(TRUE)
       IN OrElse(suppress(opened),
                 Then(suppress(LoggerDebug(logging)), PyBool(FALSE)))

\* the same inside an application context, where logging works
validate_image_content(content, min_dimension) ==
  validate_image_content_logging(content, min_dimension, "ok") = PyBool(TRUE)

(* ------------------------- upstream answers ---------------------------- *)

\* What a provider's upstream does in a scenario: exc is the exception the
\* request raises ("none" when it answers), meta says whether the metadata
\* lookup (ARK, JSON record, local file) finds the identifier.
Response(scenario) ==
  CASE scenario = "ok" ->
         [exc |-> "none", status |-> 200, ctype |-> "image/jpeg",
          meta |-> TRUE, content |-> ValidImage]
    [] scenario = "notfound" ->
         [exc |-> "none", status |-> 404, ctype |-> "text/html",
          meta |-> FALSE, content |-> EmptyContent]
    [] scenario = "neterror" ->
         [exc |-> "RequestException", status |-> 0, ctype |-> "",
          meta |-> FALSE, content |-> EmptyContent]
    [] scenario = "invalid" ->
         [exc |-> "none", status |-> 200, ctype |-> "image/jpeg",
          meta |-> TRUE, content |-> CorruptContent]
    [] scenario = "literal" ->
         [exc |-> "none", status |-> 200, ctype |-> "image/jpeg",
          meta |-> TRUE, content |-> LiteralNone]

IsImageType(ctype) == Len(ctype) >= 6 /\ SubSeq(ctype, 1, 6) = "image/"

(* ----------------------------- providers ------------------------------ *)

\* str.lower() over the letters that occur in provider names
LowerChar(c) ==
  CASE c = "A" -> "a" [] c = "B" -> "b" [] c = "D" -> "d" [] c = "F" -> "f"
    [] c = "G" -> "g" [] c = "I" -> "i" [] c = "L" -> "l" [] c = "N" -> "n"
    [] c = "O" -> "o" [] c = "P" -> "p" [] c = "E" -> "e" [] c = "S" -> "s"
    [] c = "T" -> "t" [] c = "R" -> "r" [] c = "U" -> "u" [] OTHER -> c

RECURSIVE Lower(_)
Lower(str) ==
  IF Len(str) = 0 THEN ""
  ELSE LowerChar(SubSeq(str, 1, 1)) \o Lower(SubSeq(str, 2, Len(str)))

\* The decorator: whatever the wrapped body raises (ValueError,
\* RequestException, any other Exception) is logged and replaced by the
\* tuple (None, provider_name.lower()); a returned value passes through.
\* (variant: only the ValueError clause is there)
handle_provider_errors_ValueErrorOnly(provider_name, body) ==
  IF body.k = "raised" /\ body.exc = "ValueError"
  THEN PyTuple(PyNone, PyStr(Lower(provider_name)))
  ELSE body

handle_provider_errors(provider_name, body) ==
  IF body.k # "raised" THEN body
  ELSE CASE body.exc = "ValueError" -> PyTuple(PyNone, PyStr(Lower(provider_name)))
         [] body.exc = "RequestException" -> PyTuple(PyNone, PyStr(Lower(provider_name)))
         [] OTHER -> PyTuple(PyNone, PyStr(Lower(provider_name)))

FilesDir == "./thumbnails"
FilesBaseUrl == "http://localhost"

\* os.path.join(a, b) on POSIX: an absolute b replaces a
path_join(a, b) ==
  IF Len(b) > 0 /\ SubSeq(b, 1, 1) = "/" THEN b
  ELSE IF Len(a) = 0 \/ SubSeq(a, Len(a), Len(a)) = "/" THEN a \o b
  ELSE a \o "/" \o b

\* FilesProvider.get_thumbnail_path: the path of an existing file or None;
\* everything raised inside is suppressed.
get_thumbnail_path(isbn, resp) ==
  LET clean_isbn_value == clean_isbn(isbn)
  IN IF resp.exc # "none" THEN PyNone
     ELSE IF resp.meta THEN PyStr(path_join(FilesDir, clean_isbn_value \o ".jpg"))
     ELSE PyNone

\* FilesProvider.get_thumbnail_url: always a tuple, the file's content is
\* not looked at.
FilesProvider(isbn, resp) ==
  LET clean_isbn_value == clean_isbn(isbn)
      thumbnail_path == get_thumbnail_path(clean_isbn_value, resp)
  IN IF ~Truthy(thumbnail_path) THEN PyTuple(PyNone, PyStr("files"))
     ELSE PyTuple(PyStr(FilesBaseUrl \o "/thumbnails/" \o clean_isbn_value),
                  PyStr("files"))

OpenLibraryProvider(isbn, resp) ==
  LET clean_isbn_value == clean_isbn(isbn)
      url == "https://covers.openlibrary.org/b/isbn/" \o clean_isbn_value
               \o "-L.jpg?default=false"
      body == IF resp.exc # "none" THEN Raised(resp.exc)
              ELSE IF resp.status = 200
                   THEN IF ~IsImageType(resp.ctype) THEN PyNone
                        ELSE IF validate_image_content(resp.content, MinDimension)
                             THEN PyStr(url)
                             ELSE PyNone
                   ELSE PyNone
  IN handle_provider_errors("Open Library", body)

\* BnfProvider.isbn_to_ark: the ARK of the record, None when the lookup
\* fails in any way (its exceptions are suppressed)
isbn_to_ark(isbn, resp) ==
  IF resp.exc # "none" THEN PyNone
  ELSE IF resp.meta THEN PyStr("ark:/12148/cb" \o isbn)
  ELSE PyNone

BnfProvider(isbn, resp) ==
  LET clean_isbn_value == clean_isbn(isbn)
      ark_id == isbn_to_ark(clean_isbn_value, resp)
      url == "http://catalogue.bnf.fr/couverture?appName=NE&idArk="
               \o (IF ark_id.k = "str" THEN ark_id.s ELSE "") \o "&couverture=1"
      body == IF ~Truthy(ark_id) THEN PyTuple(PyNone, PyStr("bnf"))
              ELSE IF resp.exc # "none" THEN Raised(resp.exc)
              ELSE IF resp.status = 200 /\ IsImageType(resp.ctype)
                      /\ validate_image_content(resp.content, MinDimension)
                   THEN PyTuple(PyStr(url), PyStr("bnf"))
                   ELSE PyTuple(PyNone, PyStr("bnf"))
  IN handle_provider_errors("BNF", body)

GoogleBooksProvider(isbn, resp) ==
  LET clean_isbn_value == clean_isbn(isbn)
      thumbnail_url == "https://books.google.com/books/content?id="
                         \o clean_isbn_value \o "&printsec=frontcover&img=1"
      body == IF resp.exc # "none" THEN Raised(resp.exc)
              ELSE IF resp.status = 200 /\ resp.meta
                      /\ validate_image_content(resp.content, MinDimension)
                   THEN PyStr(thumbnail_url)
                   ELSE PyNone
  IN handle_provider_errors("Google Books", body)

GoogleApiProvider(isbn, resp) ==
  LET clean_isbn_value == clean_isbn(isbn)
      thumbnail_url == "http://books.google.com/books/content?id="
                         \o clean_isbn_value \o "&img=1&source=gbs_api"
      body == IF resp.exc # "none" THEN Raised(resp.exc)
              ELSE IF resp.status = 200 /\ resp.meta
                      /\ validate_image_content(resp.content, MinDimension)
                   THEN PyTuple(PyStr(thumbnail_url), PyStr("google api"))
                   ELSE PyTuple(PyNone, PyStr("google api"))
  IN handle_provider_errors("Google API", body)

\* isbnlib.to_isbn10 on the identifiers of this model ('' when not convertible)
to_isbn10(isbn) == IF isbn = "9780134685991" THEN "0134685997" ELSE ""

AmazonProvider(isbn, resp) ==
  LET clean_isbn_value == clean_isbn(isbn)
      isbn10 == to_isbn10(clean_isbn_value)
      url == "https://images-na.ssl-images-amazon.com/images/P/" \o isbn10
               \o ".08._SCLZZZZZZZ_.jpg"
      body == IF resp.exc # "none" THEN Raised(resp.exc)
              ELSE IF resp.status = 200
                      /\ validate_image_content(resp.content, MinDimension)
                   THEN PyStr(url)
                   ELSE PyNone
  IN handle_provider_errors("Amazon", body)

\* the registry: the names PROVIDERS[...] accepts
PROVIDERS == {"files", "open library", "bnf", "google books", "google api", "amazon"}

\* PROVIDERS[provider_name]().get_thumbnail_url(isbn)
ProviderCall(provider_name, isbn, resp) ==
  CASE provider_name = "files" -> FilesProvider(isbn, resp)
    [] provider_name = "open library" -> OpenLibraryProvider(isbn, resp)
    [] provider_name = "bnf" -> BnfProvider(isbn, resp)
    [] provider_name = "google books" -> GoogleBooksProvider(isbn, resp)
    [] provider_name = "google api" -> GoogleApiProvider(isbn, resp)
    [] provider_name = "amazon" -> AmazonProvider(isbn, resp)

\* every provider's answer to every identifier under every scenario,
\* computed once
ProviderAnswers ==
  [provider_name \in PROVIDERS |->
    [isbn \in AllIdentifiers |->
      [scenario \in Scenarios \cup FileScenarios |->
         ProviderCall(provider_name, isbn, Response(scenario))]]]

Range(seq) == {seq[i] : i \in DOMAIN seq}

(* --------------------------- cache backends ---------------------------- *)

\* the store with key removed / with key bound to entry
Without(c, key) == [x \in (DOMAIN c) \ {key} |-> c[x]]
With(c, key, entry) == [x \in (DOMAIN c) \cup {key} |-> IF x = key THEN entry ELSE c[x]]

\* what can be wrong with the cache's storage.  File-backed store: the cache
\* directory cannot be made ("mkdir"), a key's file cannot be examined
\* ("stat"), opened for reading ("read") or opened for writing ("write").
\* Shared store: the server is unreachable ("down") or refuses writes
\* ("readonly").
FileFaults == {"mkdir", "stat", "read", "write"}
RedisFaults == {"down", "readonly"}

\* CacheBackend.get_backend(): FilesystemCache() makes the cache directory
\* outside any try, RedisCache() touches nothing
get_backend ==
  IF cacheType = "filesystem" /\ cacheFault = "mkdir"
  THEN Raised("OSError")
  ELSE PyStr(cacheType)

\* RedisCache.get: the stored value while the entry lives, else None; an
\* error of the client is not caught
RedisGet(c, key) ==
  IF cacheFault = "down" THEN [val |-> Raised("ConnectionError"), cache |-> c]
  ELSE IF key \in DOMAIN c /\ ~(c[key].exp > 0 /\ now >= c[key].exp)
  THEN [val |-> c[key].val, cache |-> c]
  ELSE [val |-> PyNone, cache |-> c]

\* RedisCache.set raises what the client raises
RedisSetRaises == cacheFault \in RedisFaults

\* RedisCache.set: the value as it is, living for timeout
RedisSet(c, key, value, timeout) ==
  With(c, key, [exp |-> IF timeout > 0 THEN now + timeout ELSE 0, val |-> value])

\* (variant: the file counts as expired from its expiry time on)
FilesystemGet_ExpiredAtExpiry(c, key) ==
  IF key \notin DOMAIN c THEN [val |-> PyNone, cache |-> c]
  ELSE IF c[key].exp > 0 /\ now >= c[key].exp
       THEN [val |-> PyNone, cache |-> Without(c, key)]
       ELSE [val |-> c[key].val, cache |-> c]

\* FilesystemCache.get: the file's data as bytes; a file past its expiry is
\* unlinked and reads as None.  cache_path.exists() stands outside the try
\* and passes on an OSError other than a missing path; an error of open or
\* read is caught and reads as None.
FilesystemGet(c, key) ==
  IF cacheFault = "stat" THEN [val |-> Raised("PermissionError"), cache |-> c]
  ELSE IF key \notin DOMAIN c THEN [val |-> PyNone, cache |-> c]
  ELSE IF cacheFault = "read" THEN [val |-> PyNone, cache |-> c]
  ELSE IF c[key].exp > 0 /\ now > c[key].exp
       THEN [val |-> PyNone, cache |-> Without(c, key)]
       ELSE [val |-> c[key].val, cache |-> c]

\* (variant: a timeout that is not positive counts from the current time)
FilesystemSet_ZeroTtlExpiresNow(c, key, value, timeout) ==
  With(c, key,
       [exp |-> now + (IF timeout > 0 THEN timeout ELSE 0),
        val |-> IF value.k = "None" THEN PyBytes("")
                ELSE IF value.k = "bytes" THEN value
                ELSE PyBytes(PyToStr(value))])

\* (variant: the file is opened without truncation, so the tail of a longer
\* old value stays behind the new bytes)
FilesystemSet_NoTruncate(c, key, value, timeout) ==
  LET bytes == IF value.k = "None" THEN ""
               ELSE IF value.k = "bytes" THEN value.s
               ELSE PyToStr(value)
      old == IF key \in DOMAIN c THEN c[key].val.s ELSE ""
  IN With(c, key,
          [exp |-> IF timeout > 0 THEN now + timeout ELSE 0,
           val |-> PyBytes(IF Len(old) > Len(bytes)
                           THEN bytes \o SubSeq(old, Len(bytes) + 1, Len(old))
                           ELSE bytes)])

\* FilesystemCache.set: expiry header, then the value's bytes (str(value)
\* encoded when the value is not bytes, nothing when it is None); an error
\* of open is caught and nothing is written
FilesystemSet(c, key, value, timeout) ==
  IF cacheFault = "write" THEN c ELSE
  With(c, key,
       [exp |-> IF timeout > 0 THEN now + timeout ELSE 0,
        val |-> IF value.k = "None" THEN PyBytes("")
                ELSE IF value.k = "bytes" THEN value
                ELSE PyBytes(PyToStr(value))])

\* CacheBackend.get_backend() followed by get / set
CacheGet(c, key) ==
  IF cacheType = "filesystem" THEN FilesystemGet(c, key) ELSE RedisGet(c, key)

CacheSet(c, key, value, timeout) ==
  IF cacheType = "filesystem" THEN FilesystemSet(c, key, value, timeout)
  ELSE RedisSet(c, key, value, timeout)

\* cache.set(...) raises instead of returning
CacheSetRaises == cacheType = "redis" /\ RedisSetRaises

(* ------------------------------ resolver ------------------------------- *)

\* (variant: the key is made of the normalized identifier)
UrlCacheKey_Normalized(isbn) == "rero_thumbnails_" \o clean_isbn(isbn)

\* cache_key = f"rero_thumbnails_{isbn}"
UrlCacheKey(isbn) == "rero_thumbnails_" \o isbn

\* The loop over the configured providers from position i on: each name is
\* looked up in the registry (KeyError when unknown), constructed and asked;
\* the first truthy answer ends the loop.
\* (variant: the loop does not return at the first truthy answer but asks
\* the remaining providers too and keeps the first answer)
RECURSIVE QueryProvidersAskAll(_, _, _, _)
QueryProvidersAskAll(i, isbn, wld, invoked) ==
  IF i > Len(providers)
  THEN [result |-> PyNone, found |-> FALSE, invoked |-> invoked]
  ELSE LET provider_name == providers[i]
       IN IF provider_name \notin PROVIDERS
          THEN [result |-> Raised("KeyError"), found |-> FALSE, invoked |-> invoked]
          ELSE LET url == ProviderAnswers[provider_name][isbn][wld[provider_name]]
                   called == Append(invoked, provider_name)
                   rest == QueryProvidersAskAll(i + 1, isbn, wld, called)
               IN IF url.k = "raised"
                  THEN [result |-> url, found |-> FALSE, invoked |-> called]
                  ELSE IF Truthy(url)
                       THEN [result |-> url, found |-> TRUE, invoked |-> rest.invoked]
                       ELSE rest

\* (variant: a provider that gives nothing is asked a second time before
\* the loop moves on)
RECURSIVE QueryProvidersRetry(_, _, _, _)
QueryProvidersRetry(i, isbn, wld, invoked) ==
  IF i > Len(providers)
  THEN [result |-> PyNone, found |-> FALSE, invoked |-> invoked]
  ELSE LET provider_name == providers[i]
       IN IF provider_name \notin PROVIDERS
          THEN [result |-> Raised("KeyError"), found |-> FALSE, invoked |-> invoked]
          ELSE LET url == ProviderAnswers[provider_name][isbn][wld[provider_name]]
                   called == Append(invoked, provider_name)
               IN IF url.k = "raised"
                  THEN [result |-> url, found |-> FALSE, invoked |-> called]
                  ELSE IF Truthy(url)
                       THEN [result |-> url, found |-> TRUE, invoked |-> called]
                       ELSE QueryProvidersRetry(i + 1, isbn, wld,
                                                Append(called, provider_name))

RECURSIVE QueryProviders(_, _, _, _)
QueryProviders(i, isbn, wld, invoked) ==
  IF i > Len(providers)
  THEN [result |-> PyNone, found |-> FALSE, invoked |-> invoked]
  ELSE LET provider_name == providers[i]
       IN IF provider_name \notin PROVIDERS
          THEN [result |-> Raised("KeyError"), found |-> FALSE, invoked |-> invoked]
          ELSE LET url == ProviderAnswers[provider_name][isbn][wld[provider_name]]
                   called == Append(invoked, provider_name)
               IN IF url.k = "raised"
                  THEN [result |-> url, found |-> FALSE, invoked |-> called]
                  ELSE IF Truthy(url)
                       THEN [result |-> url, found |-> TRUE, invoked |-> called]
                       ELSE QueryProviders(i + 1, isbn, wld, called)

\* (variant: the cache is never consulted)
CachedLookupNever(c, cache_key, cached) ==
  [val |-> PyNone, cache |-> c, gets |-> <<>>]

\* (variant: the cache is consulted whatever the caller asked for)
CachedLookupAlways(c, cache_key, cached) ==
  [val |-> CacheGet(c, cache_key).val, cache |-> CacheGet(c, cache_key).cache,
   gets |-> <<cache_key>>]

\* the cache is consulted only when the caller asked for caching
CachedLookup(c, cache_key, cached) ==
  IF cached
  THEN [val |-> CacheGet(c, cache_key).val, cache |-> CacheGet(c, cache_key).cache,
        gets |-> <<cache_key>>]
  ELSE [val |-> PyNone, cache |-> c, gets |-> <<>>]

\* api.get_thumbnail_url(isbn, cached) run on cache c: the returned (or
\* raised) value, the cache it leaves, the providers it constructed in
\* order, the keys it wrote, and whether the cache answered.
get_thumbnail_url(c, isbn, cached, wld) ==
  LET cache_key == UrlCacheKey(isbn)
      got == CachedLookup(c, cache_key, cached)
      cached_url == IF got.val.k = "bytes" THEN PyStr(got.val.s) ELSE got.val
      q == QueryProviders(1, isbn, wld, <<>>)
  IN IF get_backend.k = "raised"
     THEN [result |-> get_backend, cache |-> c, invoked |-> <<>>, sets |-> <<>>,
           gets |-> <<>>, hit |-> FALSE]
     ELSE IF got.val.k = "raised"
     THEN [result |-> got.val, cache |-> got.cache, invoked |-> <<>>,
           sets |-> <<>>, gets |-> got.gets, hit |-> FALSE]
     ELSE IF got.val # PyNone
     THEN [result |-> IF cached_url # PyStr("None") THEN cached_url ELSE PyNone,
           cache |-> got.cache, invoked |-> <<>>, sets |-> <<>>,
           gets |-> got.gets, hit |-> TRUE]
     ELSE IF q.result.k = "raised"
     THEN [result |-> q.result, cache |-> got.cache, invoked |-> q.invoked,
           sets |-> <<>>, gets |-> got.gets,
           hit |-> FALSE]
     ELSE IF cached /\ CacheSetRaises
     THEN [result |-> Raised("ConnectionError"), cache |-> got.cache,
           invoked |-> q.invoked, sets |-> <<cache_key>>, gets |-> got.gets,
           hit |-> FALSE]
     ELSE IF q.found
     THEN [result |-> q.result,
           cache |-> IF cached
                     THEN CacheSet(got.cache, cache_key,
                                   IF q.result.k = "str" THEN PyBytes(q.result.s)
                                   ELSE q.result, CacheExpire)
                     ELSE got.cache,
           invoked |-> q.invoked,
           sets |-> IF cached THEN <<cache_key>> ELSE <<>>,
           gets |-> got.gets, hit |-> FALSE]
     ELSE [result |-> PyNone,
           cache |-> IF cached
                     THEN CacheSet(got.cache, cache_key, PyBytes("None"), CacheExpire)
                     ELSE got.cache,
           invoked |-> q.invoked,
           sets |-> IF cached THEN <<cache_key>> ELSE <<>>,
           gets |-> got.gets, hit |-> FALSE]

(* ------------------------------ materializer --------------------------- *)

\* hashlib.md5(...).hexdigest(), taken to be collision-free
Md5(text) == "md5(" \o text \o ")"

\* (variant: the key is made of the identifier alone)
generate_cache_key_NoDimensions(isbn, prefix, width, height) ==
  "rero_thumbnail_" \o prefix \o "_" \o Md5(isbn)

\* _generate_cache_key; an absent width or height is 0 here, which the
\* code treats alike (`width or 0`, `if width or height`)
generate_cache_key(isbn, prefix, width, height) ==
  LET cache_key_base ==
        IF width # 0 \/ height # 0
        THEN isbn \o "_" \o ToString(width) \o "x" \o ToString(height)
        ELSE isbn
  IN "rero_thumbnail_" \o prefix \o "_" \o Md5(cache_key_base)

\* img.resize(new_size, LANCZOS): a new image of that size
Resized(new_w, new_h) == [w |-> new_w, h |-> new_h, resampled |-> TRUE]

\* the image as it came
Same(img) == [w |-> img.w, h |-> img.h, resampled |-> FALSE]

\* (variant: the source's dimensions are not examined before dividing)
resize_image_NoZeroCheck(img, width, height) ==
  IF width = 0 /\ height = 0 THEN Same(img)
  ELSE IF width # 0 /\ height # 0 THEN Resized(width, height)
  ELSE IF width # 0
       THEN IF img.w = 0 THEN Raised("ZeroDivisionError")
            ELSE Resized(width, (width * img.h) \div img.w)
       ELSE IF img.h = 0 THEN Raised("ZeroDivisionError")
            ELSE Resized((height * img.w) \div img.h, height)

\* _resize_image: the size of the returned image and whether it was
\* resampled; an absent width or height is 0, int() of the quotient of
\* positive numbers is the integer quotient
resize_image(img, width, height) ==
  IF width = 0 /\ height = 0 THEN Same(img)
  ELSE IF img.w = 0 \/ img.h = 0 THEN Same(img)
  ELSE IF width # 0 /\ height # 0 THEN Resized(width, height)
  ELSE IF width # 0 THEN Resized(width, (width * img.h) \div img.w)
  ELSE Resized((height * img.w) \div img.h, height)

\* the bytes of an image taken from source, at a size
Payload(source, size) ==
  PyBytes(source \o "#" \o ToString(size.w) \o "x" \o ToString(size.h))

\* file.read() / resp.content: the content as it is, byte for byte
RawBytes(source, content) ==
  IF content = LiteralNone THEN PyBytes("None") ELSE Payload(source, content)

\* the image bytes get_thumbnail makes of content read from source: as they
\* are without dimensions, else opened and resized; opening content that is
\* no image raises
Render(source, content, width, height) ==
  IF width # 0 \/ height # 0
  THEN IF content.decodable
       THEN Payload(source, resize_image(content, width, height))
       ELSE Raised("UnidentifiedImageError")
  ELSE RawBytes(source, content)

\* fetch_with_retries(url, timeout=10) as get_thumbnail uses it: requests
\* refuses what is not an http(s) URL string, else the upstream answers
Fetch(url, dl) ==
  IF url.k = "str" /\ Len(url.s) >= 4 /\ SubSeq(url.s, 1, 4) = "http"
  THEN Response(dl)
  ELSE Response("neterror")

\* the provider label get_thumbnail derives from the URL
DetectProvider(url) ==
  IF PyIn("openlibrary.org", url) THEN "open_library"
  ELSE IF PyIn("amazon", url) THEN "amazon"
  ELSE IF PyIn("bnf.fr", url) THEN "bnf"
  ELSE IF PyIn("google", url)
       THEN IF PyIn("books.google.com", url) THEN "google_books" ELSE "google_api"
  ELSE "unknown"

\* (variant: a failure is not remembered, only fetched images are stored)
FetchAndStore_NoNegativeMarker(u, cache_key, cached, width, height, dl, gets, local) ==
  LET url == u.result
      resp == Fetch(url, dl)
      img_data == Render("GET " \o PyToStr(url), resp.content, width, height)
      served == /\ Truthy(url)
                /\ resp.exc = "none"
                /\ resp.status = 200
                /\ IsImageType(resp.ctype)
                /\ img_data.k # "raised"
  IN IF url.k = "raised"
     THEN [result |-> url, cache |-> u.cache, invoked |-> u.invoked,
           sets |-> u.sets, gets |-> gets \o u.gets, hit |-> FALSE,
           local |-> local, fetched |-> FALSE]
     ELSE [result |-> IF served THEN PyTuple(img_data, PyStr(DetectProvider(url)))
                      ELSE PyTuple(PyNone, PyNone),
           cache |-> IF cached /\ served
                     THEN CacheSet(u.cache, cache_key, img_data, CacheExpire)
                     ELSE u.cache,
           invoked |-> u.invoked,
           sets |-> IF cached /\ served THEN u.sets \o <<cache_key>> ELSE u.sets,
           gets |-> gets \o u.gets, hit |-> FALSE,
           local |-> local, fetched |-> Truthy(url)]

\* second half of get_thumbnail: no cache hit and no local file served; u is
\* the outcome of get_thumbnail_url(isbn, cached).
FetchAndStore(u, cache_key, cached, width, height, dl, gets, local) ==
  LET url == u.result
      resp == Fetch(url, dl)
      img_data == Render("GET " \o PyToStr(url), resp.content, width, height)
      served == /\ Truthy(url)
                /\ resp.exc = "none"
                /\ resp.status = 200
                /\ IsImageType(resp.ctype)
                /\ img_data.k # "raised"
  IN IF url.k = "raised"
     THEN [result |-> url, cache |-> u.cache, invoked |-> u.invoked,
           sets |-> u.sets, gets |-> gets \o u.gets, hit |-> FALSE,
           local |-> local, fetched |-> FALSE]
     ELSE IF cached /\ CacheSetRaises
     THEN \* the set of the image raises inside the try and is caught, the
          \* set of the marker after it raises outside
          [result |-> Raised("ConnectionError"), cache |-> u.cache,
           invoked |-> u.invoked, sets |-> u.sets \o <<cache_key>>,
           gets |-> gets \o u.gets, hit |-> FALSE,
           local |-> local, fetched |-> Truthy(url)]
     ELSE [result |-> IF served THEN PyTuple(img_data, PyStr(DetectProvider(url)))
                      ELSE PyTuple(PyNone, PyNone),
           cache |-> IF cached
                     THEN CacheSet(u.cache, cache_key,
                                   IF served THEN img_data ELSE PyBytes("None"),
                                   CacheExpire)
                     ELSE u.cache,
           invoked |-> u.invoked,
           sets |-> IF cached THEN u.sets \o <<cache_key>> ELSE u.sets,
           gets |-> gets \o u.gets, hit |-> FALSE,
           local |-> local, fetched |-> Truthy(url)]

\* api.get_thumbnail(isbn, cached, width, height) run on cache c; a set that
\* raises after the local file was read is caught with the read errors and
\* the call goes on with the URL of the providers
get_thumbnail(c, isbn, cached, width, height, wld, dl) ==
  LET cache_key == generate_cache_key(isbn, "img", width, height)
      got == CachedLookup(c, cache_key, cached)
      has_files == "files" \in Range(providers)
      thumbnail_path == IF has_files
                        THEN get_thumbnail_path(isbn, Response(wld["files"]))
                        ELSE PyNone
      local_data == IF Truthy(thumbnail_path)
                    THEN Render("file " \o thumbnail_path.s,
                                Response(wld["files"]).content, width, height)
                    ELSE PyNone
      local == IF ~has_files THEN "none"
               ELSE IF ~Truthy(thumbnail_path) THEN "miss"
               ELSE IF local_data.k = "raised" THEN "error"
               ELSE "read"
  IN IF get_backend.k = "raised"
     THEN [result |-> get_backend, cache |-> c, invoked |-> <<>>, sets |-> <<>>,
           gets |-> <<>>, hit |-> FALSE, local |-> "none", fetched |-> FALSE]
     ELSE IF got.val.k = "raised"
     THEN [result |-> got.val, cache |-> got.cache, invoked |-> <<>>,
           sets |-> <<>>, gets |-> got.gets, hit |-> FALSE, local |-> "none",
           fetched |-> FALSE]
     ELSE IF got.val # PyNone
     THEN [result |-> IF got.val = PyBytes("None") THEN PyTuple(PyNone, PyNone)
                      ELSE PyTuple(got.val, PyStr("cache")),
           cache |-> got.cache, invoked |-> <<>>, sets |-> <<>>,
           gets |-> got.gets, hit |-> TRUE, local |-> "none", fetched |-> FALSE]
     ELSE IF local = "read" /\ ~(cached /\ CacheSetRaises)
     THEN [result |-> PyTuple(local_data, PyStr("files")),
           cache |-> IF cached
                     THEN CacheSet(got.cache, cache_key, local_data, CacheExpire)
                     ELSE got.cache,
           invoked |-> <<>>,
           sets |-> IF cached THEN <<cache_key>> ELSE <<>>,
           gets |-> got.gets, hit |-> FALSE, local |-> "read", fetched |-> FALSE]
     ELSE FetchAndStore(get_thumbnail_url(got.cache, isbn, cached, wld),
                        cache_key, cached, width, height, dl, got.gets, local)

(* ------------------------------- system -------------------------------- *)

ProviderLists == UNION {[1..n -> ConfigNames] : n \in 0..MaxProviders}

\* the configured providers that have an upstream
Upstreams == Range(providers) \cap PROVIDERS

NoCall ==
  [op |-> "none", isbn |-> "", cached |-> FALSE, width |-> 0, height |-> 0,
   result |-> PyNone, invoked |-> <<>>, sets |-> <<>>, gets |-> <<>>,
   hit |-> FALSE, local |-> "none", fetched |-> FALSE]

Init ==
  /\ providers \in ProviderLists
  /\ cacheType \in {"redis", "filesystem"}
  /\ now = 0
  /\ cache = [x \in {} |-> [exp |-> 0, val |-> PyNone]]
  /\ world = [x \in Upstreams |-> "notfound"]
  /\ download = "ok"
  /\ cacheFault = "none"
  /\ runtime = AppRuntime
  /\ calls = <<>>
  /\ lastCall = NoCall

\* one call of get_thumbnail_url(isbn, cached)
ResolveUrl(isbn, cached) ==
  \E r \in {get_thumbnail_url(cache, isbn, cached, world)} :
     /\ cache' = r.cache
     /\ lastCall' = [NoCall EXCEPT !.op = "resolve_url", !.isbn = isbn,
                       !.cached = cached, !.result = r.result,
                       !.invoked = r.invoked, !.sets = r.sets, !.gets = r.gets,
                       !.hit = r.hit]
     /\ UNCHANGED <<providers, cacheType, now, world, download, cacheFault, calls,
                 runtime>>

\* the upstream of one provider starts to behave differently; what the last
\* call observed no longer describes the upstreams
UpstreamChanges(provider_name, scenario) ==
  /\ provider_name \in Upstreams
  /\ world[provider_name] # scenario
  /\ world' = [world EXCEPT ![provider_name] = scenario]
  /\ lastCall' = NoCall
  /\ UNCHANGED <<providers, cacheType, now, cache, download, cacheFault, calls,
                 runtime>>

\* entries of the shared store die at their expiry, files stay until read
Purge(c, t) ==
  IF cacheType = "redis"
  THEN [x \in {y \in DOMAIN c : ~(c[y].exp > 0 /\ t >= c[y].exp)} |-> c[x]]
  ELSE c

\* time passes
Tick ==
  /\ now < MaxTime
  /\ now' = now + 1
  /\ cache' = Purge(cache, now + 1)
  /\ UNCHANGED <<providers, cacheType, world, download, lastCall, cacheFault, calls,
                 runtime>>

\* one call of get_thumbnail(isbn, cached, width, height)
GetImage(isbn, cached, width, height) ==
  \E r \in {get_thumbnail(cache, isbn, cached, width, height, world, download)} :
     /\ cache' = r.cache
     /\ lastCall' = [op |-> "get_image", isbn |-> isbn, cached |-> cached,
                     width |-> width, height |-> height, result |-> r.result,
                     invoked |-> r.invoked, sets |-> r.sets, gets |-> r.gets,
                     hit |-> r.hit, local |-> r.local, fetched |-> r.fetched]
     /\ UNCHANGED <<providers, cacheType, now, world, download, cacheFault, calls,
                 runtime>>

\* the server behind the resolved URL starts to behave differently
DownloadChanges(scenario) ==
  /\ download # scenario
  /\ download' = scenario
  /\ lastCall' = NoCall
  /\ UNCHANGED <<providers, cacheType, now, cache, world, cacheFault, calls,
                 runtime>>

Next ==
  \/ \E isbn \in Identifiers, cached \in BOOLEAN : ResolveUrl(isbn, cached)
  \/ \E provider_name \in PROVIDERS, scenario \in Scenarios :
       UpstreamChanges(provider_name, scenario)
  \/ Tick

Spec == Init /\ [][Next]_vars

\* the runs that fetch images: every upstream behaves one way for the whole
\* run, the server behind the resolved URL changes its behaviour
InitImage ==
  /\ providers \in ImageProviderLists
  /\ cacheType \in {"redis", "filesystem"}
  /\ now = 0
  /\ cache = [x \in {} |-> [exp |-> 0, val |-> PyNone]]
  /\ world \in [Upstreams -> Scenarios]
  /\ download = "ok"
  /\ cacheFault = "none"
  /\ runtime = AppRuntime
  /\ calls = <<>>
  /\ lastCall = NoCall

NextImage ==
  \/ \E isbn \in ImageIdentifiers, cached \in BOOLEAN : ResolveUrl(isbn, cached)
  \/ \E isbn \in ImageIdentifiers, cached \in BOOLEAN, shape \in ImageShapes :
       GetImage(isbn, cached, shape[1], shape[2])
  \/ \E scenario \in Scenarios : DownloadChanges(scenario)
  \/ Tick

SpecImage == InitImage /\ [][NextImage]_vars

\* the files directory changes for the identifier: a cover is put there,
\* replaced or deleted
SourceFileChanges(scenario) ==
  /\ "files" \in Upstreams
  /\ world["files"] # scenario
  /\ world' = [world EXCEPT !["files"] = scenario]
  /\ UNCHANGED <<providers, cacheType, now, cache, download, lastCall, cacheFault, calls,
                 runtime>>

\* what the HTTP boundary answers
HttpResponse(status, body) == [k |-> "response", status |-> status, body |-> body, at |-> now]

\* views.serve_thumbnail, GET /thumbnails/<isbn>?width=..&height=.. without
\* conditional headers: the local file as it is, or 404; the query
\* parameters are not read and the image cache is not used
serve_thumbnail(isbn, width, height, wld) ==
  LET thumbnail_path == get_thumbnail_path(isbn, Response(wld["files"]))
  IN IF ~Truthy(thumbnail_path)
     THEN HttpResponse(404, PyStr("Thumbnail not found"))
     ELSE HttpResponse(200, RawBytes("file " \o thumbnail_path.s,
                                     Response(wld["files"]).content))

\* one request to the image endpoint
ServeThumbnail(isbn, width, height) ==
  /\ "files" \in Upstreams
  /\ lastCall' = [NoCall EXCEPT !.op = "serve_thumbnail", !.isbn = isbn,
                    !.cached = TRUE, !.width = width, !.height = height,
                    !.result = serve_thumbnail(isbn, width, height, world)]
  /\ UNCHANGED <<providers, cacheType, now, cache, world, download, cacheFault, calls,
                 runtime>>

\* what the endpoint answered, with the query parameter it was given and
\* what the resolver returned to it
EndpointOutcome(resp, arg, resolved) ==
  [k |-> "response", status |-> resp.status, body |-> resp.body, at |-> resp.at,
   arg |-> arg, resolved |-> resolved]

\* request.args.get("cached", default="true").lower() != "false"
CachedParam(arg) == Lower(IF arg = "" THEN "true" ELSE arg) # "false"

\* views.get_thumbnail_url_endpoint after the resolver returned (or raised)
\* v: `url, provider = v` needs a 2-tuple (or a string of two characters);
\* everything raised is answered 500
UrlEndpointResponse(isbn, v) ==
  LET not_found == [error |-> "Thumbnail not found", isbn |-> isbn]
      server_error == [error |-> "Server error", isbn |-> isbn]
  IN CASE v.k = "raised" -> HttpResponse(500, server_error)
       [] v.k = "None" -> HttpResponse(500, server_error)
       [] v.k = "tuple" ->
            IF ~Truthy(v.a) THEN HttpResponse(404, not_found)
            ELSE HttpResponse(200, [url |-> v.a, isbn |-> isbn, provider |-> v.b])
       [] v.k = "str" ->
            IF Len(v.s) = 2
            THEN HttpResponse(200, [url |-> PyStr(SubSeq(v.s, 1, 1)), isbn |-> isbn,
                                    provider |-> PyStr(SubSeq(v.s, 2, 2))])
            ELSE HttpResponse(500, server_error)
       [] OTHER -> HttpResponse(500, server_error)

\* one request GET /thumbnails-url/<isbn>?cached=arg
GetThumbnailUrlEndpoint(isbn, arg) ==
  \E r \in {get_thumbnail_url(cache, isbn, CachedParam(arg), world)} :
     /\ cache' = r.cache
     /\ lastCall' = [NoCall EXCEPT !.op = "url_endpoint", !.isbn = isbn,
                       !.cached = CachedParam(arg),
                       !.result = EndpointOutcome(UrlEndpointResponse(isbn, r.result),
                                                  arg, r.result),
                       !.invoked = r.invoked, !.sets = r.sets, !.gets = r.gets,
                       !.hit = r.hit]
     /\ UNCHANGED <<providers, cacheType, now, world, download, cacheFault, calls,
                 runtime>>

\* the runs that go through the HTTP boundary: the remote upstreams behave
\* one way for the whole run, the files directory changes
InitEndpoints ==
  /\ providers \in EndpointProviderLists
  /\ cacheType \in {"redis", "filesystem"}
  /\ now = 0
  /\ cache = [x \in {} |-> [exp |-> 0, val |-> PyNone]]
  /\ world \in [Upstreams -> Scenarios]
  /\ download = "ok"
  /\ cacheFault = "none"
  /\ runtime = AppRuntime
  /\ calls = <<>>
  /\ lastCall = NoCall

NextEndpoints ==
  \/ \E isbn \in ImageIdentifiers, arg \in CachedArgs : GetThumbnailUrlEndpoint(isbn, arg)
  \/ \E isbn \in ImageIdentifiers, shape \in RenditionShapes :
       ServeThumbnail(isbn, shape[1], shape[2])
  \/ \E scenario \in FileScenarios : SourceFileChanges(scenario)
  \/ Tick

SpecEndpoints == InitEndpoints /\ [][NextEndpoints]_vars

\* the runs that look at renditions of a local file: the remote upstream
\* and the server behind the resolved URL behave one way for the whole run
InitRenditions ==
  /\ providers \in RenditionProviderLists
  /\ cacheType \in {"redis", "filesystem"}
  /\ now = 0
  /\ cache = [x \in {} |-> [exp |-> 0, val |-> PyNone]]
  /\ world \in [Upstreams -> {"ok", "notfound"}]
  /\ download = "ok"
  /\ cacheFault = "none"
  /\ runtime = AppRuntime
  /\ calls = <<>>
  /\ lastCall = NoCall

NextRenditions ==
  \/ \E isbn \in ImageIdentifiers, cached \in BOOLEAN, shape \in RenditionShapes :
       GetImage(isbn, cached, shape[1], shape[2])
  \/ \E scenario \in FileScenarios : SourceFileChanges(scenario)
  \/ Tick

SpecRenditions == InitRenditions /\ [][NextRenditions]_vars

(* --------------------------- retrying fetcher -------------------------- *)

\* _get_retry_config(): the settings of one call. Durations are counted in
\* the step of the configuration (the defaults 0.5 s, 1 s, 10 s are 1, 2,
\* 20 steps); a policy allows at least one attempt and has
\* backoff_min <= backoff_max.
RetryPolicies ==
  {p \in [attempts : 1..MaxAttempts, backoff_multiplier : 0..MaxBackoff,
          backoff_min : 0..MaxBackoff, backoff_max : 0..MaxBackoff,
          enabled : BOOLEAN] : p.backoff_min <= p.backoff_max}

\* what one requests.get does: it raises a transport error
\* (requests.RequestException), raises something else, or returns a
\* response with a status code
GetOutcomes ==
  {[exc |-> "RequestException", status |-> 0], [exc |-> "TypeError", status |-> 0],
   [exc |-> "none", status |-> 200], [exc |-> "none", status |-> 404],
   [exc |-> "none", status |-> 500]}

\* what the successive GETs of one call would do
GetScripts == [1..MaxAttempts -> GetOutcomes]

Min(a, b) == IF a <= b THEN a ELSE b
Max(a, b) == IF a >= b THEN a ELSE b

RECURSIVE Pow2(_)
Pow2(n) == IF n <= 0 THEN 1 ELSE 2 * Pow2(n - 1)

\* (variant: the exponent is the number of the failed attempt)
wait_exponential_FromAttemptNumber(policy, attempt_number) ==
  Max(Max(0, policy.backoff_min),
      Min(policy.backoff_multiplier * Pow2(attempt_number), policy.backoff_max))

\* wait_exponential(multiplier, min, max) after attempt attempt_number
\* (1, 2, ...) failed: multiplier * 2 ** (attempt_number - 1), clamped
wait_exponential(policy, attempt_number) ==
  Max(Max(0, policy.backoff_min),
      Min(policy.backoff_multiplier * Pow2(attempt_number - 1), policy.backoff_max))

\* (variant: a 5xx response is retried like a transport error)
RECURSIVE Retrying_RetryServerErrors(_, _, _, _)
Retrying_RetryServerErrors(policy, script, attempt_number, waits) ==
  LET outcome == script[attempt_number]
  IN IF outcome.exc # "RequestException" /\ outcome.status < 500
     THEN [attempts |-> attempt_number, waits |-> waits, outcome |-> outcome]
     ELSE IF attempt_number >= policy.attempts
     THEN [attempts |-> attempt_number, waits |-> waits, outcome |-> outcome]
     ELSE Retrying_RetryServerErrors(policy, script, attempt_number + 1,
                   Append(waits, wait_exponential(policy, attempt_number)))

\* (variant: the loop stops one attempt early)
RECURSIVE Retrying_StopsEarly(_, _, _, _)
Retrying_StopsEarly(policy, script, attempt_number, waits) ==
  LET outcome == script[attempt_number]
  IN IF outcome.exc # "RequestException"
     THEN [attempts |-> attempt_number, waits |-> waits, outcome |-> outcome]
     ELSE IF attempt_number + 1 >= policy.attempts
     THEN [attempts |-> attempt_number, waits |-> waits, outcome |-> outcome]
     ELSE Retrying_StopsEarly(policy, script, attempt_number + 1,
                   Append(waits, wait_exponential(policy, attempt_number)))

\* Retrying(stop_after_attempt, wait_exponential, retry_if_exception_type(
\* RequestException), reraise=True).call(requests.get, ...) from attempt
\* attempt_number on: a response or another exception ends the call, a
\* transport error is re-raised when attempt_number >= attempts and else
\* slept on and retried
RECURSIVE Retrying(_, _, _, _)
Retrying(policy, script, attempt_number, waits) ==
  LET outcome == script[attempt_number]
  IN IF outcome.exc # "RequestException"
     THEN [attempts |-> attempt_number, waits |-> waits, outcome |-> outcome]
     ELSE IF attempt_number >= policy.attempts
     THEN [attempts |-> attempt_number, waits |-> waits, outcome |-> outcome]
     ELSE Retrying(policy, script, attempt_number + 1,
                   Append(waits, wait_exponential(policy, attempt_number)))

\* (variant: only the global override switches retries off)
fetch_with_retries_IgnoresEnabled(policy, disable_retries, script) ==
  IF disable_retries
  THEN [attempts |-> 1, waits |-> <<>>, outcome |-> script[1]]
  ELSE Retrying(policy, script, 1, <<>>)

\* fetch_with_retries under a policy, with _DISABLE_RETRIES as given: the
\* number of GETs made, the waits between them, and the outcome returned or
\* raised
fetch_with_retries(policy, disable_retries, script) ==
  IF disable_retries \/ ~policy.enabled
  THEN [attempts |-> 1, waits |-> <<>>, outcome |-> script[1]]
  ELSE Retrying(policy, script, 1, <<>>)

\* a call of fetch_with_retries about to be made: the policy in force, the
\* value of _DISABLE_RETRIES, and what the GETs will do
FetchRequest(policy, disable_retries, script) ==
  [NoCall EXCEPT !.op = "fetch_request",
                 !.result = [k |-> "fetch", policy |-> policy,
                             disable_retries |-> disable_retries,
                             script |-> script, attempts |-> 0,
                             waits |-> <<>>, outcome |-> script[1]]]

\* the call of fetch_with_retries
FetchWithRetries ==
  /\ lastCall.op = "fetch_request"
  /\ \E r \in {fetch_with_retries(lastCall.result.policy,
                                   lastCall.result.disable_retries,
                                   lastCall.result.script)} :
       lastCall' = [lastCall EXCEPT !.op = "fetch",
                                    !.result.attempts = r.attempts,
                                    !.result.waits = r.waits,
                                    !.result.outcome = r.outcome]
  /\ UNCHANGED <<providers, cacheType, now, cache, world, download, cacheFault, calls,
                 runtime>>

\* the runs of the fetcher alone: one call under every policy
InitFetch ==
  /\ providers = <<>>
  /\ cacheType = "redis"
  /\ now = 0
  /\ cache = [x \in {} |-> [exp |-> 0, val |-> PyNone]]
  /\ world = [x \in Upstreams |-> "notfound"]
  /\ download = "ok"
  /\ cacheFault = "none"
  /\ runtime = AppRuntime
  /\ calls = <<>>
  /\ lastCall \in {FetchRequest(policy, disable_retries, script) :
                     policy \in RetryPolicies, disable_retries \in BOOLEAN,
                     script \in GetScripts}

NextFetch == FetchWithRetries

SpecFetch == InitFetch /\ [][NextFetch]_vars

(* ------------------------- reading the outcome ------------------------- *)

\* the URL a returned value carries: itself when a string, the first item
\* when a (url, provider_name) pair, none otherwise
UrlOf(v) ==
  IF v.k = "tuple" THEN v.a
  ELSE IF v.k = "str" /\ v.s # "" THEN v
  ELSE PyNone

Present(v) == UrlOf(v) # PyNone

\* what provider_name's get_thumbnail_url answers for isbn just now
Answer(provider_name, isbn) == ProviderAnswers[provider_name][isbn][world[provider_name]]

\* position i of the configured list holds a provider whose lookup succeeds
SuccessAt(i, isbn) ==
  providers[i] \in PROVIDERS /\ Present(Answer(providers[i], isbn))

\* the first such position, 0 when there is none
FirstSuccess(isbn) ==
  IF \E i \in DOMAIN providers : SuccessAt(i, isbn)
  THEN CHOOSE i \in DOMAIN providers :
         SuccessAt(i, isbn) /\ \A j \in 1..(i - 1) : ~SuccessAt(j, isbn)
  ELSE 0

\* an entry for key that has not expired
Fresh(c, key) ==
  /\ key \in DOMAIN c
  /\ \/ c[key].exp = 0
     \/ IF cacheType = "redis" THEN now < c[key].exp ELSE now <= c[key].exp

\* what a stored value reads back as: the negative marker as None
Stored(v) ==
  LET text == IF v.k = "bytes" THEN PyStr(v.s) ELSE v
  IN IF text = PyStr("None") THEN PyNone ELSE text

\* this step is a call of get_thumbnail_url(isbn, cached)
ResolveStep(isbn, cached) ==
  /\ now' = now
  /\ world' = world
  /\ lastCall'.op = "resolve_url"
  /\ lastCall'.isbn = isbn
  /\ lastCall'.cached = cached

AllRegistered == Range(providers) \subseteq PROVIDERS

FailureScenarios == {"notfound", "neterror", "invalid"}

(* ------------------------ the provider chain --------------------------- *)

\* C1: on a cache miss (or without cache) get_thumbnail_url returns the URL
\* of the first provider in configured order whose lookup succeeds, having
\* skipped (asked and passed over) every failing provider before it.
C1_FirstSuccessfulProviderWins ==
  (/\ lastCall.op = "resolve_url"
   /\ ~lastCall.hit
   /\ AllRegistered
   /\ FirstSuccess(lastCall.isbn) > 0)
  => /\ UrlOf(lastCall.result)
          = UrlOf(Answer(providers[FirstSuccess(lastCall.isbn)], lastCall.isbn))
     /\ lastCall.invoked = SubSeq(providers, 1, FirstSuccess(lastCall.isbn))

\* C2: once a provider has succeeded in a call, no provider later in the
\* configured list is constructed or asked in that call: a successful
\* provider is the last one the call touched, and the call returned.
C2_NothingAfterSuccess ==
  lastCall.op = "resolve_url"
  => /\ \A i \in DOMAIN lastCall.invoked :
          Present(Answer(lastCall.invoked[i], lastCall.isbn))
          => i = Len(lastCall.invoked)
     /\ lastCall.invoked = SubSeq(providers, 1, Len(lastCall.invoked))
     /\ (\E i \in DOMAIN lastCall.invoked :
           Present(Answer(lastCall.invoked[i], lastCall.isbn)))
        => lastCall.result.k # "raised"

\* C2 witness: a two-provider list whose first provider succeeded, the
\* registered second one left alone
C2_Witness ==
  /\ lastCall.op = "resolve_url"
  /\ Len(providers) = 2
  /\ providers[2] \in PROVIDERS
  /\ lastCall.invoked = <<providers[1]>>
  /\ Present(Answer(providers[1], lastCall.isbn))
  /\ lastCall.result = Answer(providers[1], lastCall.isbn)

\* C3: a call with cache that finds an unexpired entry for its identifier
\* returns what the entry reads back as, constructs and asks no provider,
\* and writes nothing.
C3_CacheHitAsksNoProvider ==
  [][\A isbn \in Identifiers :
       (Fresh(cache, UrlCacheKey(isbn)) /\ ResolveStep(isbn, TRUE))
       => /\ lastCall'.hit
          /\ lastCall'.invoked = <<>>
          /\ lastCall'.sets = <<>>
          /\ lastCall'.result = Stored(cache[UrlCacheKey(isbn)].val)
          /\ cache' = cache]_vars

\* C3 witness: a call answered from the cache with a URL while a provider
\* had an answer to give
C3_Witness ==
  /\ lastCall.op = "resolve_url"
  /\ lastCall.hit
  /\ lastCall.cached
  /\ Present(lastCall.result)
  /\ lastCall.invoked = <<>>
  /\ Len(providers) > 0

\* every configured provider is registered and answers absent for isbn
AllAbsent(isbn) ==
  /\ AllRegistered
  /\ \A i \in DOMAIN providers : ~Present(Answer(providers[i], isbn))

\* C4: a call with cache in which every provider answered absent (or the
\* list is empty) writes the URL-cache entry of its identifier, and while
\* that entry has not expired a later call with cache for the identifier
\* returns absent and asks no provider.
C4_NegativeResultCached ==
  /\ [](( /\ lastCall.op = "resolve_url"
          /\ lastCall.cached
          /\ ~lastCall.hit
          /\ AllAbsent(lastCall.isbn))
        => lastCall.sets = <<UrlCacheKey(lastCall.isbn)>>)
  /\ [][( /\ lastCall.op = "resolve_url"
          /\ lastCall.cached
          /\ ~lastCall.hit
          /\ AllAbsent(lastCall.isbn)
          /\ Fresh(cache, UrlCacheKey(lastCall.isbn))
          /\ ResolveStep(lastCall.isbn, TRUE))
        => /\ ~Present(lastCall'.result)
           /\ lastCall'.result.k # "raised"
           /\ lastCall'.invoked = <<>>]_vars

(* ------------------------ what providers answer ------------------------ *)

\* the provider the last call asked last
LastAsked == lastCall.invoked[Len(lastCall.invoked)]

\* C6: a URL that a lookup returns as present was confirmed during that
\* lookup to point to content that passes image validation, whichever
\* provider produced it.
C6_PresentUrlWasValidated ==
  (/\ lastCall.op = "resolve_url"
   /\ ~lastCall.hit
   /\ Present(lastCall.result))
  => /\ Len(lastCall.invoked) > 0
     /\ Response(world[LastAsked]).exc = "none"
     /\ validate_image_content(Response(world[LastAsked]).content, MinDimension)

NoCache == [x \in {} |-> [exp |-> 0, val |-> PyNone]]

\* C8: the resolver's outcome (returned value, providers consulted, value
\* written to the URL cache) does not depend on how a provider failed:
\* replacing one provider's failure by another kind of failure gives the
\* same outcome.
C8_FailureKindsIndistinguishable ==
  (lastCall.op = "resolve_url" /\ ~lastCall.hit)
  => \A provider_name \in Upstreams, scenario \in FailureScenarios :
       world[provider_name] \in FailureScenarios
       => LET other == get_thumbnail_url(NoCache, lastCall.isbn, lastCall.cached,
                                         [world EXCEPT ![provider_name] = scenario])
              key == UrlCacheKey(lastCall.isbn)
          IN /\ other.result = lastCall.result
             /\ other.invoked = lastCall.invoked
             /\ other.sets = lastCall.sets
             /\ (lastCall.sets # <<>> /\ key \in DOMAIN cache)
                => other.cache[key].val = cache[key].val

\* position i holds the first unregistered name and no provider before it
\* has a URL to give
UnknownReached(i, isbn) ==
  /\ providers[i] \notin PROVIDERS
  /\ \A j \in 1..(i - 1) :
       providers[j] \in PROVIDERS /\ ~Present(Answer(providers[j], isbn))

\* C9: on a cache miss, a call that comes to a name missing from the
\* registry, no earlier provider having succeeded, ends with the
\* unknown-provider error and has written nothing to the cache.
C9_UnknownProviderFails ==
  (/\ lastCall.op = "resolve_url"
   /\ ~lastCall.hit
   /\ \E i \in DOMAIN providers : UnknownReached(i, lastCall.isbn))
  => /\ lastCall.result = Raised("KeyError")
     /\ lastCall.sets = <<>>

\* C10: a call that returns, returns a pair: (url, name of the provider that
\* produced it) on success, (None, name of the last provider attempted) when
\* every provider answered absent, (None, None) for an empty list.
C10_ResultIsAPair ==
  (/\ lastCall.op = "resolve_url"
   /\ ~lastCall.hit
   /\ AllRegistered)
  => /\ lastCall.result.k = "tuple"
     /\ FirstSuccess(lastCall.isbn) > 0
        => lastCall.result
             = PyTuple(UrlOf(Answer(providers[FirstSuccess(lastCall.isbn)], lastCall.isbn)),
                       PyStr(providers[FirstSuccess(lastCall.isbn)]))
     /\ (AllAbsent(lastCall.isbn) /\ Len(providers) > 0)
        => lastCall.result = PyTuple(PyNone, PyStr(providers[Len(providers)]))
     /\ providers = <<>> => lastCall.result = PyTuple(PyNone, PyNone)

(* --------------------------- bypassing the cache ----------------------- *)

\* this step is a call of one of the two entry points
CallStep ==
  /\ now' = now
  /\ world' = world
  /\ download' = download
  /\ lastCall'.op \in {"resolve_url", "get_image"}

\* what the call recorded in call returns when there is nothing cached
Uncached(call) ==
  IF call.op = "resolve_url"
  THEN get_thumbnail_url(NoCache, call.isbn, FALSE, world).result
  ELSE get_thumbnail(NoCache, call.isbn, FALSE, call.width, call.height,
                     world, download).result

\* C5: a call of get_thumbnail_url or get_thumbnail with cached=False reads
\* no cache entry and writes none, leaves the cache as it was, and returns
\* what the providers give, whatever is cached for the identifier.
C5_UncachedCallLeavesCacheAlone ==
  [][(CallStep /\ ~lastCall'.cached)
     => /\ cache' = cache
        /\ lastCall'.gets = <<>>
        /\ lastCall'.sets = <<>>
        /\ ~lastCall'.hit
        /\ lastCall'.result = Uncached(lastCall')]_vars

\* C5 witness: an uncached get_thumbnail that fetched an image although the
\* cache holds an unexpired negative entry for its image key
C5_Witness ==
  /\ lastCall.op = "get_image"
  /\ ~lastCall.cached
  /\ lastCall.fetched
  /\ lastCall.result.a # PyNone
  /\ Fresh(cache, generate_cache_key(lastCall.isbn, "img", lastCall.width, lastCall.height))
  /\ cache[generate_cache_key(lastCall.isbn, "img", lastCall.width, lastCall.height)].val
       = PyBytes("None")

(* ------------------------------ renditions ----------------------------- *)

\* this step is a call of get_thumbnail
ImageStep ==
  /\ now' = now
  /\ world' = world
  /\ download' = download
  /\ lastCall'.op = "get_image"

\* the image-cache key of the call recorded in call
ImageKey(call) == generate_cache_key(call.isbn, "img", call.width, call.height)

\* what the store holds under key
Entry(c, key) == IF key \in DOMAIN c THEN c[key] ELSE [exp |-> -1, val |-> PyNone]

\* C11: for one identifier, requests with different dimensions (unsized,
\* width-only, height-only) have different image-cache keys; a call of
\* get_thumbnail neither reads nor writes nor changes the entry of any other
\* rendition, and a cache hit returns the entry of its own rendition.
C11_RenditionsIsolated ==
  [][ImageStep
     => /\ \A shape \in RenditionShapes :
             shape # <<lastCall'.width, lastCall'.height>>
             => LET other == generate_cache_key(lastCall'.isbn, "img", shape[1], shape[2])
                IN /\ other # ImageKey(lastCall')
                   /\ Entry(cache', other) = Entry(cache, other)
                   /\ other \notin Range(lastCall'.gets)
                   /\ other \notin Range(lastCall'.sets)
        /\ lastCall'.hit
             => /\ Fresh(cache, ImageKey(lastCall'))
                /\ lastCall'.result
                     = IF cache[ImageKey(lastCall')].val = PyBytes("None")
                       THEN PyTuple(PyNone, PyNone)
                       ELSE PyTuple(cache[ImageKey(lastCall')].val, PyStr("cache"))]_vars

\* C11 witness: a cache hit for one rendition while the cache holds an
\* unexpired entry of another rendition with other bytes
C11_Witness ==
  /\ lastCall.op = "get_image"
  /\ lastCall.hit
  /\ lastCall.result.a # PyNone
  /\ \E shape \in RenditionShapes :
       LET other == generate_cache_key(lastCall.isbn, "img", shape[1], shape[2])
       IN /\ shape # <<lastCall.width, lastCall.height>>
          /\ Fresh(cache, other)
          /\ cache[other].val # PyBytes("None")
          /\ cache[other].val # lastCall.result.a

\* C12: after a get_thumbnail with cache that returned bytes, a get_thumbnail
\* with cache for the same identifier and dimensions made while the entry
\* has not expired returns those very bytes with the label "cache", reads no
\* local file, asks no provider and fetches nothing, whatever has happened
\* to the source file in between and whatever the bytes are.
C12_CachedImageServed ==
  [][(/\ ImageStep
      /\ lastCall.op = "get_image"
      /\ lastCall.cached
      /\ lastCall.result.a # PyNone
      /\ lastCall'.cached
      /\ lastCall'.isbn = lastCall.isbn
      /\ lastCall'.width = lastCall.width
      /\ lastCall'.height = lastCall.height
      /\ Fresh(cache, ImageKey(lastCall)))
     => /\ lastCall'.result = PyTuple(lastCall.result.a, PyStr("cache"))
        /\ lastCall'.invoked = <<>>
        /\ lastCall'.local = "none"
        /\ ~lastCall'.fetched]_vars

(* --------------------------- total failure ----------------------------- *)

\* whether the call recorded in call asked for dimensions
Sized(call) == call.width # 0 \/ call.height # 0

\* no image can be read from the local file: files is not configured, there
\* is no file, or the file cannot be opened for resizing
LocalFails(call) ==
  \/ "files" \notin Range(providers)
  \/ world["files"] \in {"notfound", "neterror"}
  \/ world["files"] = "invalid" /\ Sized(call)

\* no configured provider has a URL for the identifier
NoProviderUrl(call) ==
  \A i \in DOMAIN providers : ~Present(Answer(providers[i], call.isbn))

\* downloading a resolved URL gives no image: a status other than 200 or a
\* type that is no image, a transport error, or content that cannot be
\* opened for resizing
DownloadFails(call) ==
  \/ download \in {"notfound", "neterror"}
  \/ download = "invalid" /\ Sized(call)

ServeStep ==
  /\ now' = now
  /\ world' = world
  /\ lastCall'.op = "serve_thumbnail"

\* C14: GET /thumbnails/<isbn> honours width and height (a 200 answer to a
\* request with dimensions carries the resized image of the local file) and
\* the image cache: once a request was answered 200, the same request
\* repeated within the cache lifetime is answered 200 with the same bytes,
\* whatever has happened to the source file in between.
C14_ImageEndpointCaches ==
  [][ServeStep
     => /\ (/\ lastCall'.result.status = 200
             /\ Sized(lastCall')
             /\ world["files"] = "ok")
            => lastCall'.result.body
                 = Render("file " \o get_thumbnail_path(lastCall'.isbn, Response("ok")).s,
                          ValidImage, lastCall'.width, lastCall'.height)
        /\ (/\ lastCall.op = "serve_thumbnail"
             /\ lastCall.result.status = 200
             /\ lastCall'.isbn = lastCall.isbn
             /\ lastCall'.width = lastCall.width
             /\ lastCall'.height = lastCall.height
             /\ now < lastCall.result.at + CacheExpire)
            => /\ lastCall'.result.status = 200
               /\ lastCall'.result.body = lastCall.result.body]_vars

\* C15: GET /thumbnails-url/<isbn> answers 404 "Thumbnail not found" when
\* the resolver returned without a URL, 200 with the URL and the isbn when
\* it returned a URL, 500 only when it raised; cached=false makes the
\* resolver run without cache.
C15_UrlEndpointStatus ==
  lastCall.op = "url_endpoint"
  => LET response == lastCall.result
         resolved == response.resolved
     IN /\ (resolved.k # "raised" /\ ~Present(resolved))
             => /\ response.status = 404
                /\ response.body = [error |-> "Thumbnail not found", isbn |-> lastCall.isbn]
        /\ Present(resolved)
             => /\ response.status = 200
                /\ response.body.url = UrlOf(resolved)
                /\ response.body.isbn = lastCall.isbn
        /\ response.status = 500 => resolved.k = "raised"
        /\ response.arg = "false" => ~lastCall.cached

(* --------------------------- retrying fetcher -------------------------- *)

\* the last call was a fetch with retries switched on
RetriesOn == lastCall.op = "fetch" /\ ~lastCall.result.disable_retries
             /\ lastCall.result.policy.enabled

Transport(outcome) == outcome.exc = "RequestException"
Answered(outcome) == outcome.exc = "none"

\* C16: only transport errors are retried: every attempt before the last
\* one of a fetch failed with a transport error, and a GET that returns a
\* response, whatever its status code, ends the fetch with that response;
\* a first GET that returns a response makes the fetch one attempt long,
\* under every policy.
C16_StatusCodesNotRetried ==
  lastCall.op = "fetch"
  => LET f == lastCall.result
     IN /\ \A i \in 1..(f.attempts - 1) : Transport(f.script[i])
        /\ Answered(f.script[1])
             => /\ f.attempts = 1
                /\ f.outcome = f.script[1]
                /\ f.waits = <<>>

\* C16 witness: retries on, several attempts allowed, the first GET answers
\* 500 and is the only one
C16_Witness ==
  /\ RetriesOn
  /\ lastCall.result.policy.attempts = MaxAttempts
  /\ lastCall.result.script[1] = [exc |-> "none", status |-> 500]
  /\ lastCall.result.attempts = 1
  /\ lastCall.result.outcome.status = 500

\* C17: with retries on, a fetch makes at most max_attempts GETs; when GET k
\* (k <= max_attempts) is the first to return a response after k - 1
\* transport errors, the fetch returns that response after exactly k GETs;
\* when all max_attempts GETs fail with a transport error, the fetch raises
\* the last of them.
C17_BoundedRetries ==
  RetriesOn
  => LET f == lastCall.result
     IN /\ f.attempts <= f.policy.attempts
        /\ \A k \in 1..f.policy.attempts :
             (Answered(f.script[k]) /\ \A j \in 1..(k - 1) : Transport(f.script[j]))
             => f.attempts = k /\ f.outcome = f.script[k]
        /\ (\A j \in 1..f.policy.attempts : Transport(f.script[j]))
             => /\ f.attempts = f.policy.attempts
                /\ f.outcome = f.script[f.policy.attempts]

\* C17 witness: two connection errors, then a response at the third and
\* last allowed attempt
C17_Witness ==
  /\ RetriesOn
  /\ lastCall.result.policy.attempts = 3
  /\ Transport(lastCall.result.script[1])
  /\ Transport(lastCall.result.script[2])
  /\ lastCall.result.script[3] = [exc |-> "none", status |-> 200]
  /\ lastCall.result.attempts = 3
  /\ lastCall.result.outcome.status = 200

\* C18: with retries off (the global override is set or the policy is not
\* enabled) a fetch makes exactly one GET, returns its response or raises
\* its error, and never waits.
C18_DisabledMeansOneAttempt ==
  (lastCall.op = "fetch" /\ ~RetriesOn)
  => /\ lastCall.result.attempts = 1
     /\ lastCall.result.outcome = lastCall.result.script[1]
     /\ lastCall.result.waits = <<>>

\* C18 witness: no global override, a policy that is not enabled and allows
\* several attempts, and a first GET that fails with a transport error
C18_Witness ==
  /\ lastCall.op = "fetch"
  /\ ~lastCall.result.disable_retries
  /\ ~lastCall.result.policy.enabled
  /\ lastCall.result.policy.attempts > 1
  /\ Transport(lastCall.result.script[1])
  /\ lastCall.result.attempts = 1
  /\ Transport(lastCall.result.outcome)

\* C19: the wait after a failed attempt is
\* min(backoff_max, max(backoff_min, backoff_multiplier * 2^attempt)),
\* attempt counting the failed attempts from 0 (0 for the first GET); there
\* is one wait between two successive GETs, every wait lies between
\* backoff_min and backoff_max, and the waits never decrease.
C19_BackoffFormula ==
  RetriesOn
  => LET f == lastCall.result
         p == f.policy
     IN /\ Len(f.waits) = f.attempts - 1
        /\ \A i \in DOMAIN f.waits :
             /\ f.waits[i]
                  = Min(p.backoff_max,
                        Max(p.backoff_min, p.backoff_multiplier * Pow2(i - 1)))
             /\ p.backoff_min <= f.waits[i]
             /\ f.waits[i] <= p.backoff_max
             /\ i > 1 => f.waits[i - 1] <= f.waits[i]

\* C19 witness: a fetch that waited twice, longer the second time, neither
\* wait being one of the two limits
C19_Witness ==
  /\ RetriesOn
  /\ Len(lastCall.result.waits) = 2
  /\ lastCall.result.waits[1] < lastCall.result.waits[2]
  /\ lastCall.result.policy.backoff_min < lastCall.result.waits[1]
  /\ lastCall.result.waits[2] < lastCall.result.policy.backoff_max

(* ------------------------- file-backed expiry -------------------------- *)

\* this step is a call of get_thumbnail_url with cache on the file-backed
\* store, which starts with a get of the identifier's key
FileGetStep ==
  /\ cacheType = "filesystem"
  /\ now' = now
  /\ world' = world
  /\ lastCall'.op = "resolve_url"
  /\ lastCall'.cached

\* C20: on the file-backed store an entry is written with expiry now + ttl;
\* a get made while the time does not exceed the stored expiry returns the
\* entry's value and leaves the file; the first get made after the expiry
\* returns absent and removes the file (what is under the key afterwards
\* was written anew by the same call), so an expired value is never
\* returned.
C20_FileExpiry ==
  [][FileGetStep
     => LET key == UrlCacheKey(lastCall'.isbn)
        IN /\ key \in Range(lastCall'.sets)
                => cache'[key].exp = now + CacheExpire
           /\ (key \in DOMAIN cache /\ cache[key].exp > 0 /\ now <= cache[key].exp)
                => /\ lastCall'.hit
                   /\ lastCall'.result = Stored(cache[key].val)
                   /\ cache' = cache
           /\ (key \in DOMAIN cache /\ cache[key].exp > 0 /\ now > cache[key].exp)
                => /\ ~lastCall'.hit
                   /\ key \in DOMAIN cache' => key \in Range(lastCall'.sets)
                   /\ lastCall'.sets = <<>> => key \notin DOMAIN cache']_vars

\* C20 witness: after the lifetime of the first entries has passed, a call
\* with cache got nothing from the file-backed store and wrote its entry
\* anew with expiry now + ttl, while the expired file of the other
\* identifier, not read since, is still there
C20_Witness ==
  /\ cacheType = "filesystem"
  /\ lastCall.op = "resolve_url"
  /\ lastCall.cached
  /\ ~lastCall.hit
  /\ now > CacheExpire
  /\ lastCall.sets = <<UrlCacheKey(lastCall.isbn)>>
  /\ cache[UrlCacheKey(lastCall.isbn)].exp = now + CacheExpire
  /\ \E isbn \in Identifiers :
       /\ UrlCacheKey(isbn) \in DOMAIN cache
       /\ cache[UrlCacheKey(isbn)].exp > 0
       /\ now > cache[UrlCacheKey(isbn)].exp

(* ----------------------- cache backend on its own ---------------------- *)

\* the keys the resolver and the materializer use for one identifier
CacheKeys ==
  {UrlCacheKey("9780134685991"), generate_cache_key("9780134685991", "img", 0, 0)}

\* values the callers hand to set: encoded URLs, the negative marker, a
\* provider's answer pair, plain text
CacheValues ==
  {PyBytes("https://covers.openlibrary.org/b/isbn/9780134685991-L.jpg"),
   PyBytes("None"),
   PyTuple(PyNone, PyStr("files")),
   PyStr("text")}

\* timeouts: the configured lifetime, none, and a negative one
Timeouts == {-1, 0, CacheExpire}

\* one call of cache.get(key) on the configured backend
CacheGetCall(key) ==
  \E r \in {CacheGet(cache, key)} :
     /\ cache' = r.cache
     /\ lastCall' = [op |-> "cache_get", key |-> key, value |-> PyNone,
                     timeout |-> 0, result |-> r.val]
     /\ UNCHANGED <<providers, cacheType, now, world, download, cacheFault, calls,
                 runtime>>

\* one call of cache.set(key, value, timeout) on the configured backend;
\* the call returns nothing, what is noted is whether a file or entry of
\* that key was there before
CacheSetCall(key, value, timeout) ==
  /\ cache' = CacheSet(cache, key, value, timeout)
  /\ lastCall' = [op |-> "cache_set", key |-> key, value |-> value,
                  timeout |-> timeout,
                  result |-> IF key \in DOMAIN cache THEN PyStr("replaced")
                             ELSE PyStr("created")]
  /\ UNCHANGED <<providers, cacheType, now, world, download, cacheFault, calls,
                 runtime>>

InitCache ==
  /\ providers = <<>>
  /\ cacheType \in {"redis", "filesystem"}
  /\ now = 0
  /\ cache = [x \in {} |-> [exp |-> 0, val |-> PyNone]]
  /\ world = [x \in {} |-> "notfound"]
  /\ download = "ok"
  /\ cacheFault = "none"
  /\ runtime = AppRuntime
  /\ calls = <<>>
  /\ lastCall = NoCall

NextCache ==
  \/ \E key \in CacheKeys : CacheGetCall(key)
  \/ \E key \in CacheKeys, value \in CacheValues, timeout \in Timeouts :
       CacheSetCall(key, value, timeout)
  \/ Tick

SpecCache == InitCache /\ [][NextCache]_vars

\* this step is a cache.set / a cache.get on key
SetStep(key) == now' = now /\ lastCall'.op = "cache_set" /\ lastCall'.key = key
GetStep(key) == now' = now /\ lastCall'.op = "cache_get" /\ lastCall'.key = key

\* the bytes the file-backed store keeps of a value
FileBytes(value) ==
  IF value.k = "bytes" THEN value ELSE PyBytes(PyToStr(value))

\* C21: in the file-backed cache a set whose timeout is not positive stores
\* expiry 0 with the value's bytes, and an entry with expiry 0 never
\* expires: every later get of its key returns its bytes, and the entry
\* stays as it is until a set on its key overwrites it.
C21_ZeroTtlNeverExpires ==
  [][cacheType = "filesystem"
     => /\ \A key \in CacheKeys :
             (SetStep(key) /\ lastCall'.timeout <= 0)
               => cache'[key] = [exp |-> 0, val |-> FileBytes(lastCall'.value)]
        /\ \A key \in DOMAIN cache :
             cache[key].exp = 0
               => /\ GetStep(key) => lastCall'.result = cache[key].val
                  /\ ~SetStep(key)
                       => key \in DOMAIN cache' /\ cache'[key] = cache[key]]_vars

\* C21 witness: at the last moment of the run a get on the file-backed
\* store returned the bytes of an entry stored with expiry 0, while the
\* other key holds an entry written with a lifetime
C21_Witness ==
  /\ cacheType = "filesystem"
  /\ now = MaxTime
  /\ lastCall.op = "cache_get"
  /\ lastCall.key \in DOMAIN cache
  /\ cache[lastCall.key].exp = 0
  /\ lastCall.result = cache[lastCall.key].val
  /\ lastCall.result.k = "bytes"
  /\ \E key \in DOMAIN cache : cache[key].exp > 0

\* what a backend keeps of a value: the shared store the value as it is,
\* the file-backed store its bytes
Kept(value) == IF cacheType = "filesystem" THEN FileBytes(value) ELSE value

Faults == IF cacheType = "filesystem" THEN FileFaults ELSE RedisFaults

\* the cache's storage starts or stops failing; what the last call observed
\* no longer describes it
CacheFaultChanges(fault) ==
  /\ fault \in Faults \cup {"none"}
  /\ cacheFault # fault
  /\ cacheFault' = fault
  /\ lastCall' = NoCall
  /\ UNCHANGED <<providers, cacheType, now, cache, world, download, calls,
                 runtime>>

\* the runs with a failing cache: registered providers only, each upstream
\* behaving one way for the whole run
InitFaults ==
  /\ providers \in ImageProviderLists
  /\ cacheType \in {"redis", "filesystem"}
  /\ now = 0
  /\ cache = [x \in {} |-> [exp |-> 0, val |-> PyNone]]
  /\ world \in [Upstreams -> {"ok", "notfound"}]
  /\ download = "ok"
  /\ cacheFault = "none"
  /\ runtime = AppRuntime
  /\ calls = <<>>
  /\ lastCall = NoCall

NextFaults ==
  \/ \E isbn \in ImageIdentifiers, cached \in BOOLEAN : ResolveUrl(isbn, cached)
  \/ \E isbn \in ImageIdentifiers, cached \in BOOLEAN, shape \in ImageShapes :
       GetImage(isbn, cached, shape[1], shape[2])
  \/ \E fault \in FileFaults \cup RedisFaults \cup {"none"} : CacheFaultChanges(fault)
  \/ Tick

SpecFaults == InitFaults /\ [][NextFaults]_vars

\* C23: a cache fault never surfaces as a request failure: whatever fails
\* in the cache (obtaining the backend, a get, a set), on either backend,
\* a call of resolve_url or get_image made meanwhile does not raise.
C23_CacheFaultContained ==
  (lastCall.op \in {"resolve_url", "get_image"} /\ cacheFault # "none")
    => lastCall.result.k # "raised"

(* ------------------ concurrent calls on one cache file ----------------- *)

\* The file of one key under calls of FilesystemCache.set and .get that run
\* at the same time in several workers, with no lock.  A file is its
\* 8-byte expiry header (exp, -1 while the file is shorter than 8 bytes)
\* and the bytes after it (val).  Every system call is one step.

\* the buffer of Python's buffered file objects (io.DEFAULT_BUFFER_SIZE),
\* in the scale of the values: the header and the negative marker fit in
\* it, the header and an image do not
HeaderSize == 8
BufferSize == 16

\* the workers that call at the same time
MaxWorkers == 3
Workers == 1..MaxWorkers

FileKey == generate_cache_key("9780134685991", "img", 0, 0)

\* the values get_thumbnail writes: the negative marker and an image
FileValues ==
  {PyBytes("None"),
   Payload("GET https://covers.openlibrary.org/b/isbn/9780134685991-L.jpg",
           ValidImage)}

EmptyFile == [exp |-> -1, val |-> PyBytes("")]

\* bytes written at the start of data over what is there: a longer old
\* content keeps its tail
Overwrite(old, bytes) ==
  IF Len(old) > Len(bytes)
  THEN bytes \o SubSeq(old, Len(bytes) + 1, Len(old))
  ELSE bytes

\* the first n bytes
Prefix(bytes, n) == IF Len(bytes) > n THEN SubSeq(bytes, 1, n) ELSE bytes

\* the writer's buffer takes header and value, which go out in one write
\* when the file is closed
Buffered(value) == HeaderSize + Len(value.s) <= BufferSize

\* a call that has not started
SetCall(value) ==
  [op |-> "set", value |-> value, pc |-> "open", buf |-> EmptyFile,
   result |-> PyNone]
GetCall ==
  [op |-> "get", value |-> PyNone, pc |-> "open", buf |-> EmptyFile,
   result |-> PyNone]

\* set: open(cache_path, "wb") creates or truncates the file
FileOpenWrite(p) ==
  /\ calls[p].op = "set" /\ calls[p].pc = "open"
  /\ cache' = With(cache, FileKey, EmptyFile)
  /\ calls' = [calls EXCEPT ![p].pc = IF Buffered(calls[p].value)
                                      THEN "flush" ELSE "header"]
  /\ UNCHANGED <<providers, cacheType, cacheFault, now, world, download, lastCall,
                 runtime>>

\* set, value within the buffer: close writes header and value at offset 0
FileFlush(p) ==
  /\ calls[p].op = "set" /\ calls[p].pc = "flush"
  /\ cache' = With(cache, FileKey,
                   [exp |-> now + CacheExpire,
                    val |-> PyBytes(Overwrite(cache[FileKey].val.s,
                                              calls[p].value.s))])
  /\ calls' = [calls EXCEPT ![p].pc = "done"]
  /\ UNCHANGED <<providers, cacheType, cacheFault, now, world, download, lastCall,
                 runtime>>

\* set, value beyond the buffer: the buffered header is written first
FileWriteHeader(p) ==
  /\ calls[p].op = "set" /\ calls[p].pc = "header"
  /\ cache' = With(cache, FileKey,
                   [exp |-> now + CacheExpire, val |-> cache[FileKey].val])
  /\ calls' = [calls EXCEPT ![p].pc = "data"]
  /\ UNCHANGED <<providers, cacheType, cacheFault, now, world, download, lastCall,
                 runtime>>

\* ... then the value at offset 8; written into a file that was truncated
\* meanwhile it leaves a header of zero bytes, which reads as expiry 0
FileWriteData(p) ==
  /\ calls[p].op = "set" /\ calls[p].pc = "data"
  /\ cache' = With(cache, FileKey,
                   [exp |-> IF cache[FileKey].exp = -1 THEN 0
                            ELSE cache[FileKey].exp,
                    val |-> PyBytes(Overwrite(cache[FileKey].val.s,
                                              calls[p].value.s))])
  /\ calls' = [calls EXCEPT ![p].pc = "done"]
  /\ UNCHANGED <<providers, cacheType, cacheFault, now, world, download, lastCall,
                 runtime>>

\* get: cache_path.exists() and open(cache_path, "rb")
FileOpenRead(p) ==
  /\ calls[p].op = "get" /\ calls[p].pc = "open"
  /\ calls' = [calls EXCEPT ![p].pc = IF FileKey \in DOMAIN cache
                                      THEN "header" ELSE "done"]
  /\ UNCHANGED <<providers, cacheType, cacheFault, now, cache, world, download,
                 lastCall, runtime>>

\* get: file.read(8) fills the reader's buffer with the first BufferSize
\* bytes of the file; fewer than 8 bytes or an expired header end the call
\* with None
FileReadHeader(p) ==
  /\ calls[p].op = "get" /\ calls[p].pc = "header"
  /\ LET f == cache[FileKey]
         seen == Prefix(f.val.s, BufferSize - HeaderSize)
     IN IF f.exp = -1
        THEN /\ calls' = [calls EXCEPT ![p].pc = "done"]
             /\ cache' = cache
        ELSE IF f.exp > 0 /\ now > f.exp
        THEN /\ calls' = [calls EXCEPT ![p].pc = "done"]
             /\ cache' = Without(cache, FileKey)
        ELSE /\ calls' = [calls EXCEPT ![p].pc = "data",
                                       ![p].buf = [exp |-> f.exp,
                                                   val |-> PyBytes(seen)]]
             /\ cache' = cache
  /\ UNCHANGED <<providers, cacheType, cacheFault, now, world, download, lastCall,
                 runtime>>

\* get: file.read() returns the rest of the buffer and what the file holds
\* from the reader's offset on
FileReadData(p) ==
  /\ calls[p].op = "get" /\ calls[p].pc = "data"
  /\ LET seen == calls[p].buf.val.s
         there == cache[FileKey].val.s
         rest == IF Len(there) > Len(seen)
                 THEN SubSeq(there, Len(seen) + 1, Len(there)) ELSE ""
     IN calls' = [calls EXCEPT ![p].pc = "done",
                               ![p].result = PyBytes(seen \o rest)]
  /\ UNCHANGED <<providers, cacheType, cacheFault, now, cache, world, download,
                 lastCall, runtime>>

\* the workers' calls are chosen at the start, no file is there yet
InitFiles ==
  /\ providers = <<>>
  /\ cacheType = "filesystem"
  /\ cacheFault = "none"
  /\ runtime = AppRuntime
  /\ now = 0
  /\ cache = [x \in {} |-> EmptyFile]
  /\ world = [x \in {} |-> "notfound"]
  /\ download = "ok"
  /\ lastCall = NoCall
  /\ calls \in [Workers -> {SetCall(value) : value \in FileValues} \cup {GetCall}]

NextFiles ==
  \E p \in Workers :
     \/ FileOpenWrite(p)
     \/ FileFlush(p)
     \/ FileWriteHeader(p)
     \/ FileWriteData(p)
     \/ FileOpenRead(p)
     \/ FileReadHeader(p)
     \/ FileReadData(p)

SpecFiles == InitFiles /\ [][NextFiles]_vars

\* the values the workers' set calls write
Written == {calls[p].value : p \in {q \in Workers : calls[q].op = "set"}}

\* C24: with the file-backed cache and no locking, under any interleaving
\* of set and get calls on one key, a get that has returned either missed
\* or returned exactly the whole value of one of the set calls, and once
\* all calls have returned the file holds the whole value of one writer.
C24_NoTornEntry ==
  /\ \A p \in DOMAIN calls :
       (calls[p].op = "get" /\ calls[p].pc = "done")
         => calls[p].result = PyNone \/ calls[p].result \in Written
  /\ ((\A p \in DOMAIN calls : calls[p].pc = "done") /\ Written # {})
       => cache[FileKey].val \in Written

(* ------------------- one history on both backends --------------------- *)

\* A history of calls is made with the shared store, then the application
\* is configured with the file-backed store, an empty cache directory, and
\* the same calls are made again against the same upstreams.  No time
\* passes, so no entry expires.

\* the calls of one history
MaxCalls == 2

\* the calls that can be made
CallKinds ==
  {[op |-> "resolve_url", isbn |-> isbn, cached |-> cached, width |-> 0, height |-> 0] :
     isbn \in ImageIdentifiers, cached \in BOOLEAN}
  \cup
  {[op |-> "get_image", isbn |-> isbn, cached |-> cached,
    width |-> shape[1], height |-> shape[2]] :
     isbn \in ImageIdentifiers, cached \in BOOLEAN, shape \in ImageShapes}

\* what a call returns and the cache it leaves
Outcome(call) ==
  IF call.op = "resolve_url"
  THEN LET r == get_thumbnail_url(cache, call.isbn, call.cached, world)
       IN [result |-> r.result, cache |-> r.cache]
  ELSE LET r == get_thumbnail(cache, call.isbn, call.cached, call.width,
                              call.height, world, download)
       IN [result |-> r.result, cache |-> r.cache]

Performed(call, r) ==
  [NoCall EXCEPT !.op = call.op, !.isbn = call.isbn, !.cached = call.cached,
                 !.width = call.width, !.height = call.height,
                 !.result = r.result]

\* a call: any call with the shared store, noted in the history with its
\* result; the next call of the history with the file-backed store
Run(call) ==
  /\ \/ cacheType = "redis" /\ Len(calls.log) < MaxCalls
     \/ /\ cacheType = "filesystem"
        /\ calls.pos <= Len(calls.log)
        /\ call = calls.log[calls.pos].call
  /\ \E r \in {Outcome(call)} :
        /\ cache' = r.cache
        /\ lastCall' = Performed(call, r)
        /\ calls' = IF cacheType = "redis"
                    THEN [calls EXCEPT !.log = Append(@, [call |-> call,
                                                          result |-> r.result])]
                    ELSE [calls EXCEPT !.pos = @ + 1]
  /\ UNCHANGED <<providers, cacheType, cacheFault, now, world, download,
                 runtime>>

\* RERO_INVENIO_THUMBNAILS_CACHE_TYPE is set to "filesystem"
SwitchBackend ==
  /\ cacheType = "redis"
  /\ calls.log # <<>>
  /\ cacheType' = "filesystem"
  /\ cache' = [x \in {} |-> [exp |-> 0, val |-> PyNone]]
  /\ lastCall' = NoCall
  /\ calls' = [calls EXCEPT !.pos = 1]
  /\ UNCHANGED <<providers, cacheFault, now, world, download, runtime>>

InitBackends ==
  /\ providers \in ImageProviderLists
  /\ cacheType = "redis"
  /\ cacheFault = "none"
  /\ runtime = AppRuntime
  /\ now = 0
  /\ cache = [x \in {} |-> [exp |-> 0, val |-> PyNone]]
  /\ world \in [Upstreams -> {"ok", "notfound"}]
  /\ download = "ok"
  /\ lastCall = NoCall
  /\ calls = [log |-> <<>>, pos |-> 0]

NextBackends ==
  \/ \E call \in CallKinds : Run(call)
  \/ SwitchBackend

SpecBackends == InitBackends /\ [][NextBackends]_vars

\* C25: the two cache backends are interchangeable: the same calls of
\* resolve_url and get_image, against the same upstreams and with no entry
\* expiring, return with the file-backed store what they returned with the
\* shared store, whatever value the resolver stored.
C25_BackendsInterchangeable ==
  (cacheType = "filesystem" /\ lastCall.op # "none")
    => lastCall.result = calls.log[calls.pos - 1].result

(* ------------------- the pure helpers on their own -------------------- *)

\* One call of clean_isbn, validate_image_content or _resize_image, on
\* every input of a bounded set; `calls` holds the call to make.

\* identifiers: strings of digits, check character, hyphens and spaces
MaxLen == 4
IsbnAlphabet == {"9", "X", "-", " "}

RECURSIVE StringsUpTo(_)
StringsUpTo(n) ==
  IF n = 0 THEN {""}
  ELSE LET shorter == StringsUpTo(n - 1)
       IN shorter \cup {c \o str : c \in IsbnAlphabet, str \in shorter}

\* image content: absent, empty, not decodable, or an image of some size
\* around the thresholds
MinDimensions == {1, MinDimension}
Sides == {0, 1, MinDimension - 1, MinDimension, MinDimension + 1}
Contents ==
  {PyNone, EmptyContent, CorruptContent}
  \cup {[len |-> 2048, decodable |-> TRUE, w |-> w, h |-> h] : w \in Sides, h \in Sides}

\* source images and requested dimensions (0: not requested)
MaxSide == 4
Sources ==
  {[w |-> w, h |-> h] : w \in 0..MaxSide, h \in 0..MaxSide}
  \cup {[w |-> 200, h |-> 100]}
Requested == 0..MaxSide \cup {50}

HelperCalls ==
  {[op |-> "clean_isbn", isbn |-> str] : str \in StringsUpTo(MaxLen)}
  \cup
  {[op |-> "validate_image_content", content |-> content,
    min_dimension |-> min_dimension, logging |-> logging] :
     content \in Contents, min_dimension \in MinDimensions,
     logging \in {"ok", "fails"}}
  \cup
  {[op |-> "resize_image", img |-> img, width |-> width, height |-> height] :
     img \in Sources, width \in Requested, height \in Requested}

\* clean_isbn(isbn), and clean_isbn of what it returned
CleanIsbn ==
  /\ calls.op = "clean_isbn"
  /\ lastCall.op = "none"
  /\ lastCall' = [op |-> "clean_isbn",
                  result |-> PyStr(clean_isbn(calls.isbn)),
                  again |-> PyStr(clean_isbn(clean_isbn(calls.isbn)))]
  /\ UNCHANGED <<providers, cacheType, cacheFault, now, cache, world, download,
                 calls, runtime>>

\* validate_image_content(content, min_dimension=...)
ValidateImageContent ==
  /\ calls.op = "validate_image_content"
  /\ lastCall.op = "none"
  /\ lastCall' = [op |-> "validate_image_content",
                  result |-> validate_image_content_logging(
                               calls.content, calls.min_dimension, calls.logging)]
  /\ UNCHANGED <<providers, cacheType, cacheFault, now, cache, world, download,
                 calls, runtime>>

\* _resize_image(img, width, height)
ResizeImage ==
  /\ calls.op = "resize_image"
  /\ lastCall.op = "none"
  /\ lastCall' = [op |-> "resize_image",
                  result |-> resize_image(calls.img, calls.width, calls.height)]
  /\ UNCHANGED <<providers, cacheType, cacheFault, now, cache, world, download,
                 calls, runtime>>

InitUtils ==
  /\ providers = <<>>
  /\ cacheType = "redis"
  /\ cacheFault = "none"
  /\ runtime = AppRuntime
  /\ now = 0
  /\ cache = [x \in {} |-> [exp |-> 0, val |-> PyNone]]
  /\ world = [x \in {} |-> "notfound"]
  /\ download = "ok"
  /\ lastCall = NoCall
  /\ calls \in HelperCalls

NextUtils ==
  \/ CleanIsbn
  \/ ValidateImageContent
  \/ ResizeImage

SpecUtils == InitUtils /\ [][NextUtils]_vars

\* str contains the character c
HasChar(str, c) == \E i \in 1..Len(str) : SubSeq(str, i, i) = c

\* the characters of str other than hyphen and space, in their order
RECURSIVE OtherCharacters(_)
OtherCharacters(str) ==
  IF Len(str) = 0 THEN ""
  ELSE LET c == SubSeq(str, 1, 1)
           rest == OtherCharacters(SubSeq(str, 2, Len(str)))
       IN IF c \in {"-", " "} THEN rest ELSE c \o rest

\* C26: clean_isbn returns a string for every string and is idempotent;
\* its result holds no hyphen and no space, is made of all the other
\* characters of the input in their order, and is the input itself when
\* the input holds no hyphen and no space.
C26_NormalizeIdempotent ==
  lastCall.op = "clean_isbn"
    => /\ lastCall.result.k = "str"
       /\ lastCall.again = lastCall.result
       /\ ~HasChar(lastCall.result.s, "-")
       /\ ~HasChar(lastCall.result.s, " ")
       /\ lastCall.result.s = OtherCharacters(calls.isbn)
       /\ (~HasChar(calls.isbn, "-") /\ ~HasChar(calls.isbn, " "))
            => lastCall.result.s = calls.isbn

\* C26 witness: an identifier with a hyphen and a space between other
\* characters was cleaned to those characters
C26_Witness ==
  /\ lastCall.op = "clean_isbn"
  /\ calls.isbn = "9- X"
  /\ lastCall.result = PyStr("9X")
  /\ lastCall.again = PyStr("9X")

\* C27: validate_image_content never raises and returns true exactly when
\* the content is present and not empty, decodes as an image, and both
\* decoded dimensions are at least min_dimension, whether logging works or
\* fails.
C27_ValidExactly ==
  lastCall.op = "validate_image_content"
    => lastCall.result =
         PyBool(/\ calls.content # PyNone
                /\ calls.content.len > 0
                /\ calls.content.decodable
                /\ calls.content.w >= calls.min_dimension
                /\ calls.content.h >= calls.min_dimension)

\* C27 witness: with logging failing, an image of exactly min_dimension x
\* min_dimension (10 x 10) was accepted
C27_Witness ==
  /\ lastCall.op = "validate_image_content"
  /\ calls.logging = "fails"
  /\ calls.min_dimension = MinDimension
  /\ calls.content # PyNone
  /\ calls.content.decodable
  /\ calls.content.w = MinDimension
  /\ calls.content.h = MinDimension
  /\ lastCall.result = PyBool(TRUE)

\* exactly one of width and height is requested of an image with a size
OneRequested ==
  /\ calls.op = "resize_image"
  /\ (calls.width = 0) # (calls.height = 0)
  /\ calls.img.w # 0
  /\ calls.img.h # 0

\* n is an integer nearest to a / b (b > 0)
Nearest(n, a, b) ==
  LET d == IF n * b >= a THEN n * b - a ELSE a - n * b
  IN 2 * d <= b

\* C28: when exactly one of width and height is requested, the other
\* dimension of the result is original_other * requested / original_same
\* rounded to the nearest integer.
C28_ProportionalNearest ==
  (lastCall.op = "resize_image" /\ OneRequested)
    => IF calls.width # 0
       THEN /\ lastCall.result.w = calls.width
            /\ Nearest(lastCall.result.h, calls.img.h * calls.width, calls.img.w)
       ELSE /\ lastCall.result.h = calls.height
            /\ Nearest(lastCall.result.w, calls.img.w * calls.height, calls.img.h)

\* C29: _resize_image returns the image as it is when neither dimension is
\* requested, returns it as it is, raising nothing, when the source has
\* zero width or zero height, and resizes to exactly (width, height) when
\* both are requested.
C29_ResizeCases ==
  lastCall.op = "resize_image"
    => /\ (calls.width = 0 /\ calls.height = 0)
            => lastCall.result = Same(calls.img)
       /\ ((calls.width # 0 \/ calls.height # 0)
           /\ (calls.img.w = 0 \/ calls.img.h = 0))
            => lastCall.result = Same(calls.img)
       /\ (calls.width # 0 /\ calls.height # 0
           /\ calls.img.w # 0 /\ calls.img.h # 0)
            => lastCall.result = Resized(calls.width, calls.height)

\* C29 witness: a width alone was requested of a source that reports zero
\* width, and the image came back as it was
C29_Witness ==
  /\ lastCall.op = "resize_image"
  /\ calls.img.w = 0
  /\ calls.img.h # 0
  /\ calls.width # 0
  /\ calls.height = 0
  /\ lastCall.result = Same(calls.img)

(* ------------------------ provider order of images -------------------- *)

\* C30: get_image respects the configured provider order: an image it
\* returns from the file-backed provider is never preferred to a provider
\* that stands earlier in the configured list and succeeds for the
\* identifier (the provider resolve_url would choose).
C30_ImageRespectsOrder ==
  (/\ lastCall.op = "get_image"
   /\ ~lastCall.hit
   /\ lastCall.result.k = "tuple"
   /\ lastCall.result.b = PyStr("files"))
    => \A i \in DOMAIN providers :
         providers[i] = "files"
           => \A j \in 1..(i - 1) : ~SuccessAt(j, lastCall.isbn)

(* ------------------------------ no retries ----------------------------- *)

\* C31: the resolver does not retry: in one call of get_thumbnail_url the
\* providers constructed and asked are the entries of the configured list
\* from its start, each entry once and in list order, so a call asks at most
\* as many providers as the list has entries.
C31_NoRetry ==
  lastCall.op = "resolve_url"
  => /\ Len(lastCall.invoked) <= Len(providers)
     /\ \A i \in DOMAIN lastCall.invoked : lastCall.invoked[i] = providers[i]

\* C31 witness: a list of two entries, both of which gave nothing, each
\* asked once and the call returned absent
C31_Witness ==
  /\ lastCall.op = "resolve_url"
  /\ ~lastCall.hit
  /\ Len(providers) = 2
  /\ lastCall.invoked = providers
  /\ lastCall.result = PyNone

(* --------------------- two resolver calls at once ---------------------- *)

\* Two calls of get_thumbnail_url(isbn, cached=True) for one identifier run
\* at the same time in two workers, on a cache that holds nothing for it.
\* Every access to the cache is one step: cache.get, the loop over the
\* providers, and cache.set, which on the file-backed store is
\* open(cache_path, "wb") and, the entry fitting the writer's buffer, one
\* write of header and value when the file is closed.  The upstreams may
\* answer the two calls differently.

\* the two calls
Resolvers == {1, 2}

ResolverIsbn == "9780134685991"
ResolverKey == UrlCacheKey(ResolverIsbn)

\* a call that has not started
ResolverCall ==
  [pc |-> "get", hit |-> FALSE, invoked |-> <<>>, value |-> PyNone,
   result |-> PyNone]

\* cache.get(cache_key) and the decoding of a hit; a file that was opened
\* for writing and not written yet is shorter than its header and reads as
\* None
ResolverGet(p) ==
  /\ calls[p].pc = "get"
  /\ LET unwritten == /\ cacheType = "filesystem"
                      /\ ResolverKey \in DOMAIN cache
                      /\ cache[ResolverKey].exp = -1
         got == IF unwritten THEN PyNone ELSE CacheGet(cache, ResolverKey).val
         cached_url == IF got.k = "bytes" THEN PyStr(got.s) ELSE got
     IN calls' = IF got # PyNone
                 THEN [calls EXCEPT ![p].pc = "done", ![p].hit = TRUE,
                         ![p].result = IF cached_url # PyStr("None")
                                       THEN cached_url ELSE PyNone]
                 ELSE [calls EXCEPT ![p].pc = "ask"]
  /\ UNCHANGED <<providers, cacheType, cacheFault, now, cache, world, download,
                 lastCall, runtime>>

\* the loop over the configured providers, up to the value handed to
\* cache.set
ResolverAsk(p) ==
  /\ calls[p].pc = "ask"
  /\ \E q \in {QueryProviders(1, ResolverIsbn, world, <<>>)} :
        calls' = [calls EXCEPT
                    ![p].pc = "set",
                    ![p].invoked = q.invoked,
                    ![p].result = q.result,
                    ![p].value = IF ~q.found THEN PyBytes("None")
                                 ELSE IF q.result.k = "str"
                                      THEN PyBytes(q.result.s)
                                      ELSE q.result]
  /\ UNCHANGED <<providers, cacheType, cacheFault, now, cache, world, download,
                 lastCall, runtime>>

\* RedisCache.set, after which the call returns
ResolverSet(p) ==
  /\ calls[p].pc = "set"
  /\ cacheType = "redis"
  /\ cache' = RedisSet(cache, ResolverKey, calls[p].value, CacheExpire)
  /\ calls' = [calls EXCEPT ![p].pc = "done"]
  /\ UNCHANGED <<providers, cacheType, cacheFault, now, world, download, lastCall,
                 runtime>>

\* FilesystemCache.set: open(cache_path, "wb") creates or truncates the file
ResolverOpen(p) ==
  /\ calls[p].pc = "set"
  /\ cacheType = "filesystem"
  /\ cache' = With(cache, ResolverKey, EmptyFile)
  /\ calls' = [calls EXCEPT ![p].pc = "flush"]
  /\ UNCHANGED <<providers, cacheType, cacheFault, now, world, download, lastCall,
                 runtime>>

\* FilesystemCache.set: leaving the with block writes header and value at
\* offset 0, over what the file holds by then; the call returns
ResolverFlush(p) ==
  /\ calls[p].pc = "flush"
  /\ cache' = With(cache, ResolverKey,
                   [exp |-> now + CacheExpire,
                    val |-> PyBytes(Overwrite(cache[ResolverKey].val.s,
                                              FileBytes(calls[p].value).s))])
  /\ calls' = [calls EXCEPT ![p].pc = "done"]
  /\ UNCHANGED <<providers, cacheType, cacheFault, now, world, download, lastCall,
                 runtime>>

InitResolvers ==
  /\ providers \in ImageProviderLists
  /\ cacheType \in {"redis", "filesystem"}
  /\ cacheFault = "none"
  /\ runtime = AppRuntime
  /\ now = 0
  /\ cache = [x \in {} |-> EmptyFile]
  /\ world \in [Upstreams -> {"ok", "notfound"}]
  /\ download = "ok"
  /\ lastCall = NoCall
  /\ calls = [p \in Resolvers |-> ResolverCall]

NextResolvers ==
  \/ \E p \in Resolvers :
        \/ ResolverGet(p)
        \/ ResolverAsk(p)
        \/ ResolverSet(p)
        \/ ResolverOpen(p)
        \/ ResolverFlush(p)
  \/ \E provider_name \in PROVIDERS, scenario \in {"ok", "notfound"} :
        UpstreamChanges(provider_name, scenario)

SpecResolvers == InitResolvers /\ [][NextResolvers]_vars

\* what a call returns when the two calls run one after the other, under
\* some behaviour of the upstreams: the first call's value and the second's
SequentialResults ==
  UNION {LET first == get_thumbnail_url(NoCache, ResolverIsbn, TRUE, wld)
             second == get_thumbnail_url(first.cache, ResolverIsbn, TRUE, wld)
         IN {first.result, second.result} :
         wld \in [Upstreams -> {"ok", "notfound"}]}

\* the calls that went through the providers, and what they handed to set
Redundant == {p \in Resolvers : calls[p].invoked # <<>>}
Writers == {p \in Resolvers : calls[p].pc = "done" /\ ~calls[p].hit}
WrittenEntries == {Kept(calls[p].value) : p \in Writers}

\* C32: two calls of get_thumbnail_url with cache for the same uncached
\* identifier that run at the same time may both go through the providers;
\* under every interleaving each call returns a value that calls made one
\* after the other return, and when both have returned the URL cache holds
\* under the identifier's key the entry one of them wrote.
C32_ConcurrentResolve ==
  /\ \A p \in Resolvers :
       calls[p].pc = "done" => calls[p].result \in SequentialResults
  /\ (\A p \in Resolvers : calls[p].pc = "done")
       => /\ ResolverKey \in DOMAIN cache
          /\ cache[ResolverKey].exp = now + CacheExpire
          /\ cache[ResolverKey].val \in WrittenEntries

(* ------------------------ the retry configuration ---------------------- *)

\* Calls of fetch_with_retries in one process while the application's
\* configuration changes and the application context comes and goes.

\* the defaults of _get_retry_config, durations in steps of 0.5 s
DefaultRetryConfig ==
  [attempts |-> 5, backoff_multiplier |-> 1, backoff_min |-> 2,
   backoff_max |-> 20, enabled |-> TRUE]

RetryKeys == DOMAIN DefaultRetryConfig

\* the retry keys a configuration sets: all, none, or some
RetryKeySets ==
  {RetryKeys, {}, {"attempts"}, {"enabled"}, {"backoff_min", "backoff_max"}}

\* the values the configuration gives them
ConfiguredPolicies ==
  {p \in RetryPolicies :
     /\ p.attempts \in {1, MaxAttempts}
     /\ p.backoff_multiplier = 1
     /\ p.backoff_min \in {0, 1}
     /\ p.backoff_max = MaxBackoff}

RetryConfigs ==
  {[key \in keys |-> p[key]] : p \in ConfiguredPolicies, keys \in RetryKeySets}

\* what the successive GETs of one call do: the first k fail with a
\* transport error, the next ones answer 200
ScriptLen == Max(MaxAttempts, DefaultRetryConfig.attempts)
FetchScripts ==
  {[i \in 1..ScriptLen |-> IF i <= k THEN [exc |-> "RequestException", status |-> 0]
                            ELSE [exc |-> "none", status |-> 200]] :
     k \in {0, 1, MaxAttempts, ScriptLen}}

\* (variant: the settings are read at the first call of the process and
\* kept)
get_retry_config_ReadOnce(rt) ==
  IF lastCall.op = "fetch" THEN lastCall.result.policy
  ELSE IF ~rt.context THEN DefaultRetryConfig
  ELSE [key \in RetryKeys |->
          IF key \in DOMAIN rt.config THEN rt.config[key]
          ELSE DefaultRetryConfig[key]]

\* _get_retry_config(): the defaults, each replaced by cfg.get(key, default)
\* inside an application context; outside one, current_app raises, the
\* error is suppressed and the defaults stay
get_retry_config(rt) ==
  IF ~rt.context THEN DefaultRetryConfig
  ELSE [key \in RetryKeys |->
          IF key \in DOMAIN rt.config THEN rt.config[key]
          ELSE DefaultRetryConfig[key]]

\* one call of fetch_with_retries: cfg = _get_retry_config(), then the GETs
\* under cfg; noted with the settings the call before it ran under
FetchCall(script) ==
  /\ \E cfg \in {get_retry_config(runtime)} :
       \E r \in {fetch_with_retries(cfg, runtime.disable_retries, script)} :
          lastCall' = [NoCall EXCEPT
                         !.op = "fetch",
                         !.result = [k |-> "fetch", policy |-> cfg,
                                     disable_retries |-> runtime.disable_retries,
                                     script |-> script, attempts |-> r.attempts,
                                     waits |-> r.waits, outcome |-> r.outcome,
                                     previous |-> IF lastCall.op = "fetch"
                                                  THEN lastCall.result.policy
                                                  ELSE cfg]]
  /\ UNCHANGED <<providers, cacheType, cacheFault, now, cache, world, download,
                 calls, runtime>>

\* the application's configuration is set anew
ConfigChanges(config) ==
  /\ runtime.config # config
  /\ runtime' = [runtime EXCEPT !.config = config]
  /\ UNCHANGED <<providers, cacheType, cacheFault, now, cache, world, download,
                 lastCall, calls>>

\* an application context is pushed or popped
ContextChanges ==
  /\ runtime' = [runtime EXCEPT !.context = ~@]
  /\ UNCHANGED <<providers, cacheType, cacheFault, now, cache, world, download,
                 lastCall, calls>>

InitRetryConfig ==
  /\ providers = <<>>
  /\ cacheType = "redis"
  /\ cacheFault = "none"
  /\ now = 0
  /\ cache = [x \in {} |-> [exp |-> 0, val |-> PyNone]]
  /\ world = [x \in Upstreams |-> "notfound"]
  /\ download = "ok"
  /\ lastCall = NoCall
  /\ calls = <<>>
  /\ runtime \in {[AppRuntime EXCEPT !.disable_retries = disable_retries] :
                     disable_retries \in BOOLEAN}

NextRetryConfig ==
  \/ \E script \in FetchScripts : FetchCall(script)
  \/ \E config \in RetryConfigs : ConfigChanges(config)
  \/ ContextChanges

SpecRetryConfig == InitRetryConfig /\ [][NextRetryConfig]_vars

\* this step is a call of fetch_with_retries
FetchStep == runtime' = runtime /\ lastCall'.op = "fetch"

\* the settings in force: the configured value of a retry key, the default
\* where the configuration is silent
InForce(key) ==
  IF key \in DOMAIN runtime.config THEN runtime.config[key]
  ELSE CASE key = "attempts" -> 5
         [] key = "backoff_multiplier" -> 1
         [] key = "backoff_min" -> 2
         [] key = "backoff_max" -> 20
         [] key = "enabled" -> TRUE

\* C33: the retry policy is read at every call of fetch_with_retries: the
\* call runs under the attempts, backoff values and enabled flag that the
\* active configuration holds at the time of the call, whatever an earlier
\* call ran under, and outside an application context under the fixed
\* defaults (5 attempts, multiplier 0.5 s, min 1 s, max 10 s, enabled); the
\* call makes no more GETs than those attempts, one GET when retries are
\* not enabled, and all of them when every GET fails with retries on.
C33_PolicyReadEveryCall ==
  [][FetchStep
     => LET f == lastCall'.result
        IN /\ runtime.context
                => \A key \in RetryKeys : f.policy[key] = InForce(key)
           /\ ~runtime.context
                => f.policy = [attempts |-> 5, backoff_multiplier |-> 1,
                               backoff_min |-> 2, backoff_max |-> 20,
                               enabled |-> TRUE]
           /\ f.attempts <= f.policy.attempts
           /\ (~f.policy.enabled \/ runtime.disable_retries) => f.attempts = 1
           /\ (/\ f.policy.enabled
               /\ ~runtime.disable_retries
               /\ \A i \in 1..f.policy.attempts : Transport(f.script[i]))
                => f.attempts = f.policy.attempts]_vars

\* C33 witness: a call that ran under other settings than the call before
\* it, the configuration having changed in between, and that made as many
\* GETs as the new settings allow
C33_Witness ==
  /\ lastCall.op = "fetch"
  /\ runtime.context
  /\ ~runtime.disable_retries
  /\ lastCall.result.previous # lastCall.result.policy
  /\ lastCall.result.previous.attempts # lastCall.result.policy.attempts
  /\ lastCall.result.policy = get_retry_config(runtime)
  /\ lastCall.result.policy.enabled
  /\ lastCall.result.attempts = lastCall.result.policy.attempts
  /\ lastCall.result.attempts > 1

(* ------------------------ answers from the cache ----------------------- *)

\* C34: on either backend, a call of get_thumbnail_url that is answered
\* from the cache returns a value equal to what the call that populated the
\* entry returned (the same URL, or None when none was found), and so does
\* every repetition: a call with cache that follows a returned call with
\* cache for the same identifier and is answered from the cache returns
\* what that call returned.
C34_CachedEqualsPopulating ==
  [][(/\ lastCall.op = "resolve_url"
      /\ lastCall.cached
      /\ lastCall.result.k # "raised"
      /\ ResolveStep(lastCall.isbn, TRUE)
      /\ lastCall'.hit)
     => lastCall'.result = lastCall.result]_vars

(* --------------------------- negative masking -------------------------- *)

\* the entry under key is an unexpired negative marker
FreshMarker(c, key) == Fresh(c, key) /\ c[key].val = PyBytes("None")

\* the entry under key will not have expired after this step
StaysFresh(key) ==
  /\ key \in DOMAIN cache
  /\ \/ cache[key].exp = 0
     \/ IF cacheType = "redis" THEN now' < cache[key].exp
        ELSE now' <= cache[key].exp

C36_LabelIsProvider ==
  (/\ lastCall.op = "get_image"
   /\ ~lastCall.hit
   /\ lastCall.result.k = "tuple"
   /\ lastCall.result.a # PyNone)
  => /\ lastCall.local = "read" => lastCall.result.b = PyStr("files")
     /\ (lastCall.local # "read" /\ lastCall.invoked # <<>>)
          => lastCall.result.b = PyStr(LastAsked)
     /\ lastCall.result.b.s \in PROVIDERS

(* ------------------------ spellings of one ISBN ------------------------ *)

\* The two entry points called with one ISBN in two spellings, each
\* upstream behaving one way for the whole run.
SpellingProviderLists == {<<"open library">>, <<"files", "open library">>}

\* the requested box of the image calls
SpellingShapes == {<<200, 0>>}

InitSpellings ==
  /\ providers \in SpellingProviderLists
  /\ cacheType \in {"redis", "filesystem"}
  /\ cacheFault = "none"
  /\ runtime = AppRuntime
  /\ now = 0
  /\ cache = [x \in {} |-> [exp |-> 0, val |-> PyNone]]
  /\ world \in [Upstreams -> {"ok", "notfound"}]
  /\ download = "ok"
  /\ calls = <<>>
  /\ lastCall = NoCall

NextSpellings ==
  \/ \E isbn \in Identifiers, cached \in BOOLEAN : ResolveUrl(isbn, cached)
  \/ \E isbn \in Identifiers, cached \in BOOLEAN, shape \in SpellingShapes :
       GetImage(isbn, cached, shape[1], shape[2])
  \/ Tick

SpecSpellings == InitSpellings /\ [][NextSpellings]_vars

\* the keys as the claim has them: made of the identifier as supplied
SuppliedUrlKey(isbn) == "rero_thumbnails_" \o isbn
SuppliedImageKey(isbn, width, height) ==
  "rero_thumbnail_img_"
    \o Md5(IF width # 0 \/ height # 0
           THEN isbn \o "_" \o ToString(width) \o "x" \o ToString(height)
           ELSE isbn)

\* the key the call recorded in call looks up first
SuppliedKey(call) ==
  IF call.op = "resolve_url" THEN SuppliedUrlKey(call.isbn)
  ELSE SuppliedImageKey(call.isbn, call.width, call.height)

\* no unexpired entry under any key the call recorded in call looks up: its
\* own key and, for an image, the URL-cache key of the same spelling
NothingCached(call) ==
  /\ ~Fresh(cache, SuppliedKey(call))
  /\ ~Fresh(cache, SuppliedUrlKey(call.isbn))

\* every key a call with the identifier isbn may touch
SuppliedKeys(isbn) ==
  {SuppliedUrlKey(isbn)}
  \cup {SuppliedImageKey(isbn, shape[1], shape[2]) : shape \in SpellingShapes}

\* C37: cache keys are made of the identifier exactly as supplied: two
\* spellings of one ISBN have different keys; a call reads and writes only
\* keys of its own spelling and leaves the entries of every other spelling
\* as they are; a call with cache is answered from the cache only when an
\* unexpired entry is there under the key of its own spelling, and with no
\* unexpired entry under any key of its own spelling, whatever is cached
\* under another spelling, it goes to the sources (local file or provider
\* chain).
C37_KeysFromSuppliedIdentifier ==
  [][CallStep
     => LET call == lastCall'
        IN /\ \A other \in Identifiers \ {call.isbn} :
                /\ SuppliedKeys(other) \cap SuppliedKeys(call.isbn) = {}
                /\ \A key \in SuppliedKeys(other) :
                     /\ key \notin Range(call.gets)
                     /\ key \notin Range(call.sets)
                     /\ Entry(cache', key) = Entry(cache, key)
           /\ Range(call.gets) \cup Range(call.sets) \subseteq SuppliedKeys(call.isbn)
           /\ call.hit => (call.cached /\ Fresh(cache, SuppliedKey(call)))
           /\ (call.cached /\ ~Fresh(cache, SuppliedKey(call))) => ~call.hit
           /\ (call.cached /\ NothingCached(call))
                => call.local = "read" \/ call.invoked # <<>>]_vars

\* C37 witness: a call with cache for the hyphenated spelling went through
\* the provider chain while the URL-cache entry written for the plain
\* spelling of the same ISBN had not expired
C37_Witness ==
  /\ lastCall.op = "resolve_url"
  /\ lastCall.cached
  /\ ~lastCall.hit
  /\ lastCall.invoked # <<>>
  /\ \E other \in Identifiers \ {lastCall.isbn} :
       /\ clean_isbn(lastCall.isbn) = other
       /\ Fresh(cache, SuppliedUrlKey(other))
       /\ cache[SuppliedUrlKey(other)].exp < cache[SuppliedUrlKey(lastCall.isbn)].exp

(* ------------------- identifiers that end like a size ------------------ *)

\* get_thumbnail called with the identifiers of KeyIdentifiers
InitKeys ==
  /\ providers = <<"open library">>
  /\ cacheType \in {"redis", "filesystem"}
  /\ cacheFault = "none"
  /\ runtime = AppRuntime
  /\ now = 0
  /\ cache = [x \in {} |-> [exp |-> 0, val |-> PyNone]]
  /\ world \in [Upstreams -> {"ok", "notfound"}]
  /\ download = "ok"
  /\ calls = <<>>
  /\ lastCall = NoCall

NextKeys ==
  \/ \E isbn \in KeyIdentifiers, cached \in BOOLEAN, shape \in ImageShapes :
       GetImage(isbn, cached, shape[1], shape[2])
  \/ Tick

SpecKeys == InitKeys /\ [][NextKeys]_vars

\* the image-cache key of the request (isbn, shape)
RequestKey(isbn, shape) == generate_cache_key(isbn, "img", shape[1], shape[2])

\* C38: with a collision-free hash, the image-cache key a get_thumbnail call
\* looks up or writes is the key of no other request: a request with
\* another identifier or another width or height has another key, and in
\* particular no unsized request for another identifier has the key of a
\* sized request.
C38_ImageKeyOfOneRequest ==
  [][(CallStep /\ lastCall'.op = "get_image")
     => \A isbn \in KeyIdentifiers, shape \in ImageShapes :
          RequestKey(isbn, shape) \in Range(lastCall'.gets) \cup Range(lastCall'.sets)
            => /\ isbn = lastCall'.isbn
               /\ shape = <<lastCall'.width, lastCall'.height>>]_vars

(* ------------------- identifiers that read as a path ------------------- *)

\* get_thumbnail and the image endpoint asked for the identifiers of
\* PathIdentifiers while covers come and go; `world["files"]` tells
\* whether os.path.isfile finds a file at the path looked for.  The rule
\* /thumbnails/<isbn> matches its variable against text without a slash.
RoutedIdentifiers == {isbn \in PathIdentifiers : ~HasChar(isbn, "/")}

InitPaths ==
  /\ providers = <<"files">>
  /\ cacheType \in {"redis", "filesystem"}
  /\ cacheFault = "none"
  /\ runtime = AppRuntime
  /\ now = 0
  /\ cache = [x \in {} |-> [exp |-> 0, val |-> PyNone]]
  /\ world \in [Upstreams -> FileScenarios]
  /\ download = "ok"
  /\ calls = <<>>
  /\ lastCall = NoCall

NextPaths ==
  \/ \E isbn \in PathIdentifiers, cached \in BOOLEAN : GetImage(isbn, cached, 0, 0)
  \/ \E isbn \in RoutedIdentifiers : ServeThumbnail(isbn, 0, 0)
  \/ \E scenario \in FileScenarios : SourceFileChanges(scenario)

SpecPaths == InitPaths /\ [][NextPaths]_vars

\* path names a file of the directory dir itself: dir, a separator and a
\* file name with no separator in it
DirectlyInside(path, dir) ==
  LET prefix == dir \o "/"
  IN /\ Len(path) > Len(prefix)
     /\ SubSeq(path, 1, Len(prefix)) = prefix
     /\ ~HasChar(SubSeq(path, Len(prefix) + 1, Len(path)), "/")

\* path ends with one of the supported extensions
SupportedExtension(path) ==
  \E ext \in {".jpg", ".jpeg", ".png"} :
     /\ Len(path) >= Len(ext)
     /\ SubSeq(path, Len(path) - Len(ext) + 1, Len(path)) = ext

\* the call recorded in call opened a local file
OpenedLocalFile(call) ==
  \/ call.op = "get_image" /\ call.local \in {"read", "error"}
  \/ call.op = "serve_thumbnail" /\ call.result.status = 200

\* C39: whatever the identifier, separators and '..' included,
\* get_thumbnail_path returns None or the path of a .jpg/.jpeg/.png file
\* directly inside the files directory, and the file that get_thumbnail's
\* local fast path or the image endpoint opens is that file.
C39_PathInsideFilesDir ==
  [][(world' = world /\ lastCall'.op \in {"get_image", "serve_thumbnail"})
     => LET thumbnail_path ==
              get_thumbnail_path(lastCall'.isbn, Response(world["files"]))
        IN /\ \/ thumbnail_path = PyNone
              \/ /\ DirectlyInside(thumbnail_path.s, FilesDir)
                 /\ SupportedExtension(thumbnail_path.s)
           /\ OpenedLocalFile(lastCall')
                => /\ thumbnail_path # PyNone
                   /\ DirectlyInside(thumbnail_path.s, FilesDir)]_vars

====
